---- MODULE Spec2Model ----
(***************************************************************************)
(* The help-channel system of bot/exts/help_channels (HelpChannels cog).   *)
(*                                                                         *)
(* The cog runs on one asyncio event loop.  A coroutine runs without       *)
(* interruption from one await to the next; every action below is one such *)
(* run: it applies the result of the call the coroutine was suspended on   *)
(* (a channel move, a cache write, a send) and executes the synchronous    *)
(* code up to the next await.  Consecutive awaits whose calls touch none   *)
(* of the modelled state (role change, DM, pin, statistics) are one        *)
(* suspension point.                                                       *)
(*                                                                         *)
(* Time is a discrete clock; one tick stands for one minute of the         *)
(* configuration (idle_minutes_*, notify_minutes).                         *)
(***************************************************************************)
EXTENDS Integers, Sequences, FiniteSets, Bags, TLC

\* ---------------------------------------------------------------- bounds
MaxTime == 2        \* the clock runs from 0 to MaxTime
MaxEvents == 3      \* gateway events (messages, commands, deletions, leaves)
MaxTasks == 3       \* coroutines alive at the same time

\* --------------------------------------------- constants.HelpChannels.*
max_available == 2
idle_minutes_claimant == 2
idle_minutes_others == 1
deleted_idle_minutes == 1
notify_minutes == 2
MinutesPerDay == 1440   \* timedelta.seconds wraps at one day

\* ------------------------------------------------------------- universe
Channels == {"c1", "c2", "c3"}      \* channel ids; a channel is named after itself
Users == {"u1", "u2"}               \* non-bot users
Staff == {"u2"}                     \* holders of a constants.HelpChannels.cmd_whitelist role
ChannelOrder == <<"c1", "c2", "c3">>  \* listing order of channels and of the name catalogue
NoChannel == "none"
NoUser == "none"
Bots == {"bot"}                     \* users with author.bot set
ExcludedChannels == {"how-to-get-help"}   \* channels of the Available category that are no help channels

VARIABLES
    now,                      \* arrow.utcnow(), in ticks
    events,                   \* number of gateway events delivered so far
    members,                  \* users that are members of the guild
    category,                 \* channel -> "none" (not created) | "available" | "in_use" | "dormant"
    channel_queue,            \* self.channel_queue (asyncio.Queue)
    name_queue,               \* self.name_queue (deque of unused names)
    available_help_channels,  \* self.available_help_channels
    claimants,                \* _caches.claimants: channel id -> user id
    claimant_last_message_times,      \* _caches.claimant_last_message_times
    non_claimant_last_message_times,  \* _caches.non_claimant_last_message_times
    scheduler,                \* self.scheduler._scheduled_tasks: channel id -> task
    locks,                    \* held locks of bot.utils.lock: <<namespace, id>>
    tasks,                    \* the coroutines of the cog that are alive
    init,                     \* self.init_task (init_cog)
    last_notification,        \* self.last_notification
    alerts,                   \* send times of the staff alerts in the notify channel
    aborted,                  \* lock keys at which a claim_channel call was aborted (lock.py log)
    \* the dynamic message of #how-to-get-help
    dynamic_message,          \* self.dynamic_message: the remembered message id (0: None)
    dynamic_cache,            \* _caches.dynamic_message["message_id"] (0: not set)
    summary_messages,         \* ids of the summary messages that exist in #how-to-get-help
    next_message_id,          \* the id the next message sent will get
    rebuilds,                 \* the update_available_help_channels coroutines that are alive
    dynamic,                  \* progress of init_cog and counters of calls and deletions
    claim_io,                 \* one claim_channel call with the outcomes of its requests
    rule_io,                  \* one run of the mentions rule
    jam_io,                   \* one call of the code jam _get_category
    wait_io,                  \* one call of wait_for_deletion
    unclaim_io,               \* one call of _unclaim_channel
    notify_io,                \* the notify_session_participants calls of one channel
    infraction_io,            \* one call of apply_mute, apply_kick or apply_ban
    pushed                    \* the channels unclaim has queued and that are not Available yet, oldest first

\* The state of the help-channel pools.
help_vars == <<now, events, members, category, channel_queue, name_queue,
               available_help_channels, claimants, claimant_last_message_times,
               non_claimant_last_message_times, scheduler, locks, tasks, init,
               last_notification, alerts, aborted, pushed>>

\* The state of the dynamic message.
dynamic_vars == <<dynamic_message, dynamic_cache, summary_messages, next_message_id,
                  rebuilds, dynamic>>

\* The state of the components that the pool transitions leave alone.
\* What the dynamic message leaves alone.
dynamic_rest == <<help_vars, claim_io, rule_io, jam_io, wait_io, unclaim_io, notify_io, infraction_io>>

\* The state of the components that the pool transitions leave alone.
call_vars == <<dynamic_vars, claim_io, rule_io, jam_io, wait_io, unclaim_io, notify_io, infraction_io>>

component_vars == <<call_vars, pushed>>

vars == <<help_vars, component_vars>>

\* ------------------------------------------------------------- helpers
Put(f, k, v) == [x \in DOMAIN f \cup {k} |-> IF x = k THEN v ELSE f[x]]

Del(f, k) == [x \in DOMAIN f \ {k} |-> f[x]]

Empty == [x \in {} |-> 0]

RECURSIVE SeqFilter(_, _)
SeqFilter(s, S) ==
    IF s = <<>> THEN <<>>
    ELSE IF Head(s) \in S THEN <<Head(s)>> \o SeqFilter(Tail(s), S)
    ELSE SeqFilter(Tail(s), S)

\* _channel.get_category_channels(category): the channels of a category in listing order
get_category_channels(cat) == SeqFilter(ChannelOrder, {c \in Channels : category[c] = cat})

Perms(S) == {s \in [1..Cardinality(S) -> S] : \A i, j \in 1..Cardinality(S) : i # j => s[i] # s[j]}

Pool(cat) == {c \in Channels : category[c] = cat}

\* A coroutine.  kind: what it runs; pc: the await it is suspended on; chan, user, ts: its
\* channel, its user (message author, command invoker, or claimant_id in unclaim) and the
\* message's created_at; reason: closed_on; ret: who awaits it ("task": nobody, "timer": the
\* Scheduler task, "init": init_cog); sched: it is the coroutine of the Scheduler task that is
\* registered for chan.
Task(kind, pc, chan, user, ts, reason, ret, sched) ==
    [kind |-> kind, pc |-> pc, chan |-> chan, user |-> user, ts |-> ts,
     reason |-> reason, ret |-> ret, sched |-> sched]

\* tasks is the bag of the coroutines that are alive.
Running == BagToSet(tasks)

Spawned(ts, t) == ts (+) SetToBag({t})

Returned(ts, t) == ts (-) SetToBag({t})

Resumed(ts, t, t2) == Spawned(Returned(ts, t), t2)

\* Room for one more coroutine.
CanSpawn == BagCardinality(tasks) < MaxTasks

\* ------------------------------------------------- bot.utils.lock.lock_arg
\* A lock is a namespace and a resource id.  Without wait=True a call that finds the
\* lock held is dropped (it returns None); with wait=True it suspends until the lock is free.
Locked(ns, id) == <<ns, id>> \in locks

NAMESPACE == "help"

UNCLAIM_NAMESPACE == "help.unclaim"

\* ---------------------------------------------- bot.utils.scheduling.Scheduler
Due(t) == IF t > MaxTime THEN MaxTime + 1 ELSE t

\* Scheduler.schedule_later: a task id that is already scheduled is not scheduled again.
schedule_later(sch, delay, c) ==
    IF c \in DOMAIN sch THEN sch ELSE Put(sch, c, [due |-> Due(now + delay), running |-> FALSE])

\* Scheduler.cancel: the task is dropped from the table and cancelled.
cancel(sch, c) == Del(sch, c)

\* A cancelled Scheduler task whose coroutine has started leaves that coroutine running
\* (asyncio.shield in Scheduler._await_later); it is no longer the scheduled task of c.
RECURSIVE detach_all(_, _)
detach_all(ts, S) ==
    IF S = {} THEN ts
    ELSE LET t == CHOOSE x \in S : TRUE
         IN  detach_all(Resumed(ts, t, [t EXCEPT !.sched = FALSE]), S \ {t})

detach(ts, c) == detach_all(ts, {t \in BagToSet(ts) : t.chan = c /\ t.sched})

\* Scheduler._task_done_callback: a finished task is dropped from the table if it is still
\* the task scheduled under its id.
task_done(sch, t) ==
    IF t.ret = "timer" /\ t.sched /\ t.chan \in DOMAIN sch THEN Del(sch, t.chan) ELSE sch

\* init_cog goes on when the coroutine it awaited returns.
InitResumed(t) == IF t.ret = "init" THEN [init EXCEPT !.busy = FALSE] ELSE init

init_done == init.pc = "done"

\* self.init_task.done(): the task has finished or was cancelled by cog_unload.
init_task_done == init.pc \in {"done", "unloaded"}

\* ------------------------------------------------ _channel.get_closing_time
ArrowMin == 0 - 1

Max(a, b) == IF a >= b THEN a ELSE b

\* is_empty: what _message.is_empty(channel) finds; last_message: created_at of the
\* channel's last message (ArrowMin: no message).
get_closing_time(c, is_empty, last_message) ==
    LET idle == IF is_empty THEN deleted_idle_minutes ELSE idle_minutes_claimant
    IN  IF is_empty \/ ~init_task_done \/ c \notin DOMAIN claimant_last_message_times
        THEN IF last_message = ArrowMin THEN ArrowMin ELSE last_message + idle
        ELSE LET claimant_time == claimant_last_message_times[c] + idle
                 others_time ==
                     IF c \in DOMAIN non_claimant_last_message_times
                     THEN non_claimant_last_message_times[c] + idle_minutes_others
                     ELSE ArrowMin
             IN  Max(claimant_time, others_time)

\* ----------------------------------------------------------------- Init
\* The guild as the bot finds it: a first start (two dormant channels, one name unused), a
\* restart during a help session, and a restart with more Available channels than
\* max_available.  The cache of an earlier run holds a claimant and a message time for each
\* of the channels left in use.
InitCategories ==
    {f \in [Channels -> {"none", "available", "in_use", "dormant"}] :
        \/ f["c1"] = "dormant" /\ f["c2"] = "dormant" /\ f["c3"] = "none"
        \/ f["c1"] = "available" /\ f["c2"] = "in_use" /\ f["c3"] = "dormant"
        \/ f["c1"] = "available" /\ f["c2"] = "available" /\ f["c3"] = "available"}

InitClaimants(f) == {[c \in {x \in Channels : f[x] = "in_use"} |-> "u1"]}

NoMessage == 0

\* The dynamic message while only the pools are looked at.
DynamicIdle ==
    /\ dynamic_message = NoMessage
    /\ dynamic_cache = NoMessage
    /\ summary_messages = {}
    /\ next_message_id = 1
    /\ rebuilds = EmptyBag
    /\ dynamic = [pc |-> "idle", calls |-> 0, deletes |-> 0]

NoCall == [pc |-> "idle"]

\* Nothing but the pools and the dynamic message is looked at.
CallsIdle ==
    /\ claim_io = NoCall
    /\ rule_io = NoCall
    /\ jam_io = NoCall
    /\ wait_io = NoCall
    /\ unclaim_io = NoCall
    /\ notify_io = NoCall
    /\ infraction_io = NoCall

Init ==
    /\ DynamicIdle
    /\ CallsIdle
    /\ now = 0
    /\ events = 0
    /\ members = Users
    /\ category \in InitCategories
    /\ claimants \in InitClaimants(category)
    /\ claimant_last_message_times = [c \in DOMAIN claimants |-> 0]
    /\ non_claimant_last_message_times = Empty
    /\ channel_queue = <<>>
    /\ name_queue = <<>>
    /\ available_help_channels = {}
    /\ scheduler = Empty
    /\ locks = {}
    /\ tasks = EmptyBag
    /\ init = [pc |-> "start", todo |-> <<>>, missing |-> 0, busy |-> FALSE]
    /\ last_notification = ArrowMin
    /\ alerts = <<>>
    /\ aborted = {}
    /\ pushed = <<>>

\* --------------------------------------------------------------- init_cog
\* init_cog with a create_channel_queue that queues the In Use channels as well.
init_cog_queue_in_use ==
    /\ init.pc = "start"
    /\ \E q \in Perms(Pool("dormant") \cup Pool("in_use")) : channel_queue' = q
    /\ name_queue' = get_category_channels("none")
    /\ init' = [init EXCEPT !.pc = "in_use", !.todo = get_category_channels("in_use")]
    /\ UNCHANGED <<now, events, members, category, available_help_channels, claimants,
                   claimant_last_message_times, non_claimant_last_message_times,
                   scheduler, locks, tasks, last_notification, alerts, aborted, component_vars>>

\* create_channel_queue and _name.create_name_queue, then the loop over the in-use channels.
init_cog ==
    /\ init.pc = "start"
    /\ \E q \in Perms(Pool("dormant")) : channel_queue' = q
    /\ name_queue' = get_category_channels("none")
    /\ init' = [init EXCEPT !.pc = "in_use", !.todo = get_category_channels("in_use")]
    /\ UNCHANGED <<now, events, members, category, available_help_channels, claimants,
                   claimant_last_message_times, non_claimant_last_message_times,
                   scheduler, locks, tasks, last_notification, alerts, aborted, component_vars>>

\* for channel in in_use: await self.move_idle_channel(channel, has_task=False)
init_move_idle ==
    /\ init.pc = "in_use" /\ ~init.busy /\ init.todo # <<>>
    /\ CanSpawn
    /\ tasks' = Spawned(tasks, Task("move_idle", "closing", Head(init.todo), NoUser, 0, "none", "init", FALSE))
    /\ init' = [init EXCEPT !.todo = Tail(init.todo), !.busy = TRUE]
    /\ UNCHANGED <<now, events, members, category, channel_queue, name_queue,
                   available_help_channels, claimants, claimant_last_message_times,
                   non_claimant_last_message_times, scheduler, locks, last_notification,
                   alerts, aborted, component_vars>>

\* init_available filling one channel more than is missing: range(missing + 1).
init_available_one_more ==
    /\ init.pc = "in_use" /\ ~init.busy /\ init.todo = <<>>
    /\ LET channels == get_category_channels("available")
           missing == max_available - Len(channels)
       IN  init' = [init EXCEPT !.pc = "available",
                                !.missing = IF missing > 0 THEN missing + 1 ELSE 0,
                                !.todo = IF missing < 0 THEN SubSeq(channels, 1, 0 - missing) ELSE <<>>]
    /\ UNCHANGED <<now, events, members, category, channel_queue, name_queue,
                   available_help_channels, claimants, claimant_last_message_times,
                   non_claimant_last_message_times, scheduler, locks, tasks,
                   last_notification, alerts, aborted, component_vars>>

\* self.close_command.enabled = True, then init_available: count the Available channels.
init_available ==
    /\ init.pc = "in_use" /\ ~init.busy /\ init.todo = <<>>
    /\ LET channels == get_category_channels("available")
           missing == max_available - Len(channels)
       IN  init' = [init EXCEPT !.pc = "available",
                                !.missing = IF missing > 0 THEN missing ELSE 0,
                                !.todo = IF missing < 0 THEN SubSeq(channels, 1, 0 - missing) ELSE <<>>]
    /\ UNCHANGED <<now, events, members, category, channel_queue, name_queue,
                   available_help_channels, claimants, claimant_last_message_times,
                   non_claimant_last_message_times, scheduler, locks, tasks,
                   last_notification, alerts, aborted, component_vars>>

\* for _ in range(missing): await self.move_to_available()
init_fill ==
    /\ init.pc = "available" /\ ~init.busy /\ init.missing > 0
    /\ CanSpawn
    /\ tasks' = Spawned(tasks, Task("move_to_available", "start", NoChannel, NoUser, 0, "none", "init", FALSE))
    /\ init' = [init EXCEPT !.missing = init.missing - 1, !.busy = TRUE]
    /\ UNCHANGED <<now, events, members, category, channel_queue, name_queue,
                   available_help_channels, claimants, claimant_last_message_times,
                   non_claimant_last_message_times, scheduler, locks, last_notification,
                   alerts, aborted, component_vars>>

\* for channel in channels[:abs(missing)]: await self.unclaim_channel(channel, CLEANUP).
\* unclaim_channel is dropped when the channel's unclaim lock is held.
init_cleanup ==
    /\ init.pc = "available" /\ ~init.busy /\ init.todo # <<>>
    /\ CanSpawn
    /\ LET c == Head(init.todo)
       IN  IF Locked(UNCLAIM_NAMESPACE, c)
           THEN /\ init' = [init EXCEPT !.todo = Tail(init.todo)]
                /\ UNCHANGED <<tasks, locks>>
           ELSE /\ init' = [init EXCEPT !.todo = Tail(init.todo), !.busy = TRUE]
                /\ locks' = locks \cup {<<UNCLAIM_NAMESPACE, c>>}
                /\ tasks' = Spawned(tasks, Task("unclaim", "get", c, NoUser, 0, "cleanup", "init", FALSE))
    /\ UNCHANGED <<now, events, members, category, channel_queue, name_queue,
                   available_help_channels, claimants, claimant_last_message_times,
                   non_claimant_last_message_times, scheduler, last_notification, alerts, aborted, component_vars>>

\* self.available_help_channels = set(get_category_channels(available)); the cog is ready.
init_ready ==
    /\ init.pc = "available" /\ ~init.busy /\ init.missing = 0 /\ init.todo = <<>>
    /\ available_help_channels' = Pool("available")
    /\ init' = [init EXCEPT !.pc = "done"]
    /\ UNCHANGED <<now, events, members, category, channel_queue, name_queue, claimants,
                   claimant_last_message_times, non_claimant_last_message_times,
                   scheduler, locks, tasks, last_notification, alerts, aborted, component_vars>>

close_enabled == init.pc \in {"available", "done"}

\* on_message with claim_channel and notify_session_participants lacking the decorator
\* lock_arg(NAMESPACE, "message", attrgetter("channel.id")).
on_message_no_channel_lock(c, u) ==
    /\ init_done
    /\ events < MaxEvents
    /\ u \in members
    /\ c \in Channels
    /\ category[c] \in {"available", "in_use"}
    /\ CanSpawn
    /\ events' = events + 1
    /\ LET free == ~Locked(NAMESPACE, u)
           both == {<<NAMESPACE, c>>, <<NAMESPACE, u>>}
       IN  IF category[c] = "available"
           THEN IF ~free
                THEN UNCHANGED <<locks, tasks>>
                ELSE IF Locked(UNCLAIM_NAMESPACE, u)
                THEN /\ locks' = locks \cup both
                     /\ tasks' = Spawned(tasks, Task("claim", "lock", c, u, now, "none", "task", FALSE))
                ELSE /\ locks' = locks \cup both \cup {<<UNCLAIM_NAMESPACE, u>>}
                     /\ tasks' = Spawned(tasks, Task("claim", "move", c, u, now, "none", "task", FALSE))
           ELSE IF free
                THEN /\ locks' = locks \cup both
                     /\ tasks' = Spawned(tasks, Task("message", "notify", c, u, now, "none", "task", FALSE))
                ELSE /\ UNCHANGED locks
                     /\ tasks' = Spawned(tasks, Task("message", "get", c, u, now, "none", "task", FALSE))
    /\ aborted' = IF category[c] = "available" /\ Locked(NAMESPACE, u)
                  THEN aborted \cup {<<NAMESPACE, u>>}
                  ELSE aborted
    /\ UNCHANGED <<now, members, category, channel_queue, name_queue,
                   available_help_channels, claimants, claimant_last_message_times,
                   non_claimant_last_message_times, scheduler, init, last_notification, alerts,
                   component_vars>>

\* on_message with claim_channel lacking its two decorators keyed by the author's id.
on_message_no_author_lock(c, u) ==
    /\ init_done
    /\ events < MaxEvents
    /\ u \in members
    /\ c \in Channels
    /\ category[c] \in {"available", "in_use"}
    /\ CanSpawn
    /\ events' = events + 1
    /\ LET free == ~Locked(NAMESPACE, c) /\ ~Locked(NAMESPACE, u)
           both == {<<NAMESPACE, c>>, <<NAMESPACE, u>>}
       IN  IF category[c] = "available"
           THEN IF Locked(NAMESPACE, c)
                THEN UNCHANGED <<locks, tasks>>
                ELSE /\ locks' = locks \cup {<<NAMESPACE, c>>}
                     /\ tasks' = Spawned(tasks, Task("claim", "move", c, u, now, "none", "task", FALSE))
           ELSE IF free
                THEN /\ locks' = locks \cup both
                     /\ tasks' = Spawned(tasks, Task("message", "notify", c, u, now, "none", "task", FALSE))
                ELSE /\ UNCHANGED locks
                     /\ tasks' = Spawned(tasks, Task("message", "get", c, u, now, "none", "task", FALSE))
    /\ aborted' = IF category[c] = "available" /\ Locked(NAMESPACE, c)
                  THEN aborted \cup {<<NAMESPACE, c>>}
                  ELSE aborted
    /\ UNCHANGED <<now, members, category, channel_queue, name_queue,
                   available_help_channels, claimants, claimant_last_message_times,
                   non_claimant_last_message_times, scheduler, init, last_notification, alerts,
                   component_vars>>

\* ------------------------------------------------------------- on_message
\* _channel.is_excluded_channel: a channel of the Available category that is not a help
\* channel.
is_excluded_channel(c) == c \in ExcludedChannels

\* channel_utils.is_in_category(message.channel, ...)
in_category(c, pool) ==
    IF c \in ExcludedChannels THEN pool = "available" ELSE category[c] = pool

\* on_message without the test of message.author.bot.
on_message_from_bots(c, u) ==
    /\ events < MaxEvents
    /\ u \in members \cup Bots
    /\ IF c \in ExcludedChannels THEN TRUE ELSE category[c] # "none"
    /\ events' = events + 1
    /\ init_done
    /\ IF in_category(c, "available")
       THEN IF is_excluded_channel(c)
            THEN UNCHANGED <<locks, tasks, aborted>>
            ELSE /\ CanSpawn
                 /\ IF Locked(NAMESPACE, c) \/ Locked(NAMESPACE, u)
                    THEN UNCHANGED <<locks, tasks>>
                    ELSE IF Locked(UNCLAIM_NAMESPACE, u)
                    THEN /\ locks' = locks \cup {<<NAMESPACE, c>>, <<NAMESPACE, u>>}
                         /\ tasks' = Spawned(tasks, Task("claim", "lock", c, u, now,
                                                         "none", "task", FALSE))
                    ELSE /\ locks' = locks \cup {<<NAMESPACE, c>>, <<NAMESPACE, u>>,
                                                  <<UNCLAIM_NAMESPACE, u>>}
                         /\ tasks' = Spawned(tasks, Task("claim", "move", c, u, now,
                                                         "none", "task", FALSE))
                 /\ aborted' = IF Locked(NAMESPACE, c)
                               THEN aborted \cup {<<NAMESPACE, c>>}
                               ELSE IF Locked(NAMESPACE, u)
                               THEN aborted \cup {<<NAMESPACE, u>>}
                               ELSE aborted
       ELSE IF in_category(c, "in_use")
       THEN /\ CanSpawn
            /\ IF ~Locked(NAMESPACE, c) /\ ~Locked(NAMESPACE, u)
               THEN /\ locks' = locks \cup {<<NAMESPACE, c>>, <<NAMESPACE, u>>}
                    /\ tasks' = Spawned(tasks, Task("message", "notify", c, u, now,
                                                    "none", "task", FALSE))
               ELSE /\ UNCHANGED locks
                    /\ tasks' = Spawned(tasks, Task("message", "get", c, u, now,
                                                    "none", "task", FALSE))
            /\ UNCHANGED aborted
       ELSE UNCHANGED <<locks, tasks, aborted>>
    /\ UNCHANGED <<now, members, category, channel_queue, name_queue,
                   available_help_channels, claimants, claimant_last_message_times,
                   non_claimant_last_message_times, scheduler, init, last_notification, alerts,
                   component_vars>>

\* A message of u in channel c.  A bot's message is ignored; the others wait for init_cog.
\* In an Available channel that is not excluded claim_channel is called: its lock
\* decorators drop the call when the channel's or the author's lock is held, and make it
\* wait for the author's unclaim lock.  In an In Use channel notify_session_participants
\* (same two locks, dropped when held) and update_message_caches are called.  A message in
\* any other channel is ignored.
on_message(c, u) ==
    /\ events < MaxEvents
    /\ u \in members \cup Bots
    /\ IF c \in ExcludedChannels THEN TRUE ELSE category[c] # "none"
    /\ events' = events + 1
    /\ IF u \in Bots
       THEN UNCHANGED <<locks, tasks, aborted>>
       ELSE /\ init_done
            /\ IF in_category(c, "available")
               THEN IF is_excluded_channel(c)
                    THEN UNCHANGED <<locks, tasks, aborted>>
                    ELSE /\ CanSpawn
                         /\ IF Locked(NAMESPACE, c) \/ Locked(NAMESPACE, u)
                            THEN UNCHANGED <<locks, tasks>>
                            ELSE IF Locked(UNCLAIM_NAMESPACE, u)
                            THEN /\ locks' = locks \cup {<<NAMESPACE, c>>, <<NAMESPACE, u>>}
                                 /\ tasks' = Spawned(tasks, Task("claim", "lock", c, u, now,
                                                                 "none", "task", FALSE))
                            ELSE /\ locks' = locks \cup {<<NAMESPACE, c>>, <<NAMESPACE, u>>,
                                                          <<UNCLAIM_NAMESPACE, u>>}
                                 /\ tasks' = Spawned(tasks, Task("claim", "move", c, u, now,
                                                                 "none", "task", FALSE))
                         /\ aborted' = IF Locked(NAMESPACE, c)
                                       THEN aborted \cup {<<NAMESPACE, c>>}
                                       ELSE IF Locked(NAMESPACE, u)
                                       THEN aborted \cup {<<NAMESPACE, u>>}
                                       ELSE aborted
               ELSE IF in_category(c, "in_use")
               THEN /\ CanSpawn
                    /\ IF ~Locked(NAMESPACE, c) /\ ~Locked(NAMESPACE, u)
                       THEN /\ locks' = locks \cup {<<NAMESPACE, c>>, <<NAMESPACE, u>>}
                            /\ tasks' = Spawned(tasks, Task("message", "notify", c, u, now,
                                                            "none", "task", FALSE))
                       ELSE /\ UNCHANGED locks
                            /\ tasks' = Spawned(tasks, Task("message", "get", c, u, now,
                                                            "none", "task", FALSE))
                    /\ UNCHANGED aborted
               ELSE UNCHANGED <<locks, tasks, aborted>>
    /\ UNCHANGED <<now, members, category, channel_queue, name_queue,
                   available_help_channels, claimants, claimant_last_message_times,
                   non_claimant_last_message_times, scheduler, init, last_notification, alerts,
                   component_vars>>

\* ---------------------------------------------------------- claim_channel
\* lock_arg(f"{NAMESPACE}.unclaim", "message", author.id, wait=True): the lock is free now.
claim_channel_wait(t) ==
    /\ t.kind = "claim" /\ t.pc = "lock"
    /\ ~Locked(UNCLAIM_NAMESPACE, t.user)
    /\ locks' = locks \cup {<<UNCLAIM_NAMESPACE, t.user>>}
    /\ tasks' = Resumed(tasks, t, [t EXCEPT !.pc = "move"])
    /\ UNCHANGED <<now, events, members, category, channel_queue, name_queue,
                   available_help_channels, claimants, claimant_last_message_times,
                   non_claimant_last_message_times, scheduler, init, last_notification,
                   alerts, aborted, component_vars>>

\* await self.move_to_in_use(message.channel): the channel is moved and its idle timer
\* scheduled; then the role change, the DM and the pin.
move_to_in_use(t) ==
    /\ t.kind = "claim" /\ t.pc = "move"
    /\ category' = [category EXCEPT ![t.chan] = "in_use"]
    /\ scheduler' = schedule_later(scheduler, idle_minutes_claimant, t.chan)
    /\ tasks' = Resumed(tasks, t, [t EXCEPT !.pc = "claimant"])
    /\ UNCHANGED <<now, events, members, channel_queue, name_queue,
                   available_help_channels, claimants, claimant_last_message_times,
                   non_claimant_last_message_times, locks, init, last_notification, alerts,
                   aborted, component_vars>>

\* await _caches.claimants.set(message.channel.id, message.author.id)
claim_channel_claimant(t) ==
    /\ t.kind = "claim" /\ t.pc = "claimant"
    /\ claimants' = Put(claimants, t.chan, t.user)
    /\ tasks' = Resumed(tasks, t, [t EXCEPT !.pc = "times"])
    /\ UNCHANGED <<now, events, members, category, channel_queue, name_queue,
                   available_help_channels, claimant_last_message_times,
                   non_claimant_last_message_times, scheduler, locks, init,
                   last_notification, alerts, aborted, component_vars>>

\* claim_channel awaiting move_to_available instead of creating a task for it: the locks
\* stay held while the refill runs.
claim_channel_finish_awaits_refill(t) ==
    /\ t.kind = "claim" /\ t.pc = "times"
    /\ LET c == t.chan
       IN  /\ claimant_last_message_times' = Put(claimant_last_message_times, c, t.ts)
           /\ non_claimant_last_message_times' = Del(non_claimant_last_message_times, c)
           /\ available_help_channels' = available_help_channels \ {c}
           /\ tasks' = IF c \in available_help_channels
                       THEN Resumed(tasks, t, Task("move_to_available", "start", NoChannel,
                                                   NoUser, 0, "none", "task", FALSE))
                       ELSE Returned(tasks, t)
    /\ UNCHANGED <<now, events, members, category, channel_queue, name_queue, claimants,
                   scheduler, locks, init, last_notification, alerts, aborted, component_vars>>

\* The timestamps are cached; the channel is removed from available_help_channels (a
\* KeyError ends the claim there); the refill task is created; the three locks are released.
claim_channel_finish(t) ==
    /\ t.kind = "claim" /\ t.pc = "times"
    /\ LET c == t.chan
           u == t.user
       IN  /\ claimant_last_message_times' = Put(claimant_last_message_times, c, t.ts)
           /\ non_claimant_last_message_times' = Del(non_claimant_last_message_times, c)
           /\ locks' = locks \ {<<NAMESPACE, c>>, <<NAMESPACE, u>>, <<UNCLAIM_NAMESPACE, u>>}
           /\ available_help_channels' = available_help_channels \ {c}
           /\ tasks' = IF c \in available_help_channels
                       THEN Resumed(tasks, t, Task("move_to_available", "start", NoChannel,
                                                   NoUser, 0, "none", "task", FALSE))
                       ELSE Returned(tasks, t)
    /\ UNCHANGED <<now, events, members, category, channel_queue, name_queue, claimants,
                   scheduler, init, last_notification, alerts, aborted, component_vars>>

\* -------------------------------------- message in an In Use channel
\* notify_session_participants returns and releases its two locks.
notify_session_participants(t) ==
    /\ t.kind = "message" /\ t.pc = "notify"
    /\ locks' = locks \ {<<NAMESPACE, t.chan>>, <<NAMESPACE, t.user>>}
    /\ tasks' = Resumed(tasks, t, [t EXCEPT !.pc = "get"])
    /\ UNCHANGED <<now, events, members, category, channel_queue, name_queue,
                   available_help_channels, claimants, claimant_last_message_times,
                   non_claimant_last_message_times, scheduler, init, last_notification,
                   alerts, aborted, component_vars>>

\* update_message_caches: claimant_id = await _caches.claimants.get(channel.id)
update_message_caches(t) ==
    /\ t.kind = "message" /\ t.pc = "get"
    /\ tasks' = IF t.chan \in DOMAIN claimants
                THEN Resumed(tasks, t, [t EXCEPT !.pc = "set",
                                           !.reason = IF claimants[t.chan] = t.user
                                                      THEN "claimant" ELSE "other"])
                ELSE Returned(tasks, t)
    /\ UNCHANGED <<now, events, members, category, channel_queue, name_queue,
                   available_help_channels, claimants, claimant_last_message_times,
                   non_claimant_last_message_times, scheduler, locks, init,
                   last_notification, alerts, aborted, component_vars>>

\* update_message_caches: the last-message time of the claimant or of the others is set.
update_message_caches_set(t) ==
    /\ t.kind = "message" /\ t.pc = "set"
    /\ IF t.reason = "claimant"
       THEN /\ claimant_last_message_times' =
                   Put(claimant_last_message_times, t.chan, t.ts)
            /\ UNCHANGED non_claimant_last_message_times
       ELSE /\ non_claimant_last_message_times' =
                   Put(non_claimant_last_message_times, t.chan, t.ts)
            /\ UNCHANGED claimant_last_message_times
    /\ tasks' = Returned(tasks, t)
    /\ UNCHANGED <<now, events, members, category, channel_queue, name_queue,
                   available_help_channels, claimants, scheduler, locks, init,
                   last_notification, alerts, aborted, component_vars>>

\* ---------------------------------------------------------- close_command
\* close_command declared with enabled=True: the command can be used from construction on.
close_command_enabled_at_construction(c, u) ==
    /\ events < MaxEvents
    /\ u \in members
    /\ category[c] = "in_use"
    /\ CanSpawn
    /\ events' = events + 1
    /\ tasks' = Spawned(tasks, Task("close", "check", c, u, now, "none", "task", FALSE))
    /\ UNCHANGED <<now, members, category, channel_queue, name_queue,
                   available_help_channels, claimants, claimant_last_message_times,
                   non_claimant_last_message_times, scheduler, locks, init,
                   last_notification, alerts, aborted, component_vars>>

\* The command is disabled until init_cog enables it; close_check fails at once outside
\* the In Use category and otherwise awaits the cached claimant.
close_command(c, u) ==
    /\ close_enabled
    /\ events < MaxEvents
    /\ u \in members
    /\ category[c] = "in_use"
    /\ CanSpawn
    /\ events' = events + 1
    /\ tasks' = Spawned(tasks, Task("close", "check", c, u, now, "none", "task", FALSE))
    /\ UNCHANGED <<now, members, category, channel_queue, name_queue,
                   available_help_channels, claimants, claimant_last_message_times,
                   non_claimant_last_message_times, scheduler, locks, init,
                   last_notification, alerts, aborted, component_vars>>

\* close_check passes for the claimant and for staff; unclaim_channel is then called, and
\* its decorator lock_arg(f"{NAMESPACE}.unclaim", "channel") drops the call when the lock of
\* the channel is held.
close_check(t) ==
    /\ t.kind = "close" /\ t.pc = "check"
    /\ LET c == t.chan
           u == t.user
           passes == (c \in DOMAIN claimants /\ claimants[c] = u) \/ u \in Staff
       IN  IF passes /\ ~Locked(UNCLAIM_NAMESPACE, c)
           THEN /\ locks' = locks \cup {<<UNCLAIM_NAMESPACE, c>>}
                /\ tasks' = Resumed(tasks, t,
                               Task("unclaim", "get", c, NoUser, 0, "command", "task", FALSE))
           ELSE /\ tasks' = Returned(tasks, t)
                /\ UNCHANGED locks
    /\ UNCHANGED <<now, events, members, category, channel_queue, name_queue,
                   available_help_channels, claimants, claimant_last_message_times,
                   non_claimant_last_message_times, scheduler, init, last_notification,
                   alerts, aborted, component_vars>>

\* -------------------------------------------------------- unclaim_channel
\* unclaim_channel calling _unclaim_channel without the claimant's lock.
unclaim_channel_unlocked(t) ==
    /\ t.kind = "unclaim" /\ t.pc = "get"
    /\ LET c == t.chan
           claimant_id == IF c \in DOMAIN claimants THEN claimants[c] ELSE NoUser
       IN  tasks' = Resumed(tasks, t, [t EXCEPT !.pc = "delete", !.user = claimant_id])
    /\ UNCHANGED <<now, events, members, category, channel_queue, name_queue,
                   available_help_channels, claimants, claimant_last_message_times,
                   non_claimant_last_message_times, scheduler, locks, init, last_notification,
                   alerts, aborted, component_vars>>

\* claimant_id = await _caches.claimants.get(channel.id); with a claimant cached,
\* _unclaim_channel is wrapped in lock_arg(f"{NAMESPACE}.unclaim", "claimant_id", wait=True).
unclaim_channel(t) ==
    /\ t.kind = "unclaim" /\ t.pc = "get"
    /\ LET c == t.chan
           claimant_id == IF c \in DOMAIN claimants THEN claimants[c] ELSE NoUser
       IN  IF claimant_id # NoUser /\ Locked(UNCLAIM_NAMESPACE, claimant_id)
           THEN /\ tasks' = Resumed(tasks, t, [t EXCEPT !.pc = "lock", !.user = claimant_id])
                /\ UNCHANGED locks
           ELSE /\ tasks' = Resumed(tasks, t, [t EXCEPT !.pc = "delete", !.user = claimant_id])
                /\ locks' = IF claimant_id # NoUser
                            THEN locks \cup {<<UNCLAIM_NAMESPACE, claimant_id>>}
                            ELSE locks
    /\ UNCHANGED <<now, events, members, category, channel_queue, name_queue,
                   available_help_channels, claimants, claimant_last_message_times,
                   non_claimant_last_message_times, scheduler, init, last_notification,
                   alerts, aborted, component_vars>>

\* The claimant's unclaim lock is free now.
unclaim_channel_wait(t) ==
    /\ t.kind = "unclaim" /\ t.pc = "lock"
    /\ ~Locked(UNCLAIM_NAMESPACE, t.user)
    /\ locks' = locks \cup {<<UNCLAIM_NAMESPACE, t.user>>}
    /\ tasks' = Resumed(tasks, t, [t EXCEPT !.pc = "delete"])
    /\ UNCHANGED <<now, events, members, category, channel_queue, name_queue,
                   available_help_channels, claimants, claimant_last_message_times,
                   non_claimant_last_message_times, scheduler, init, last_notification,
                   alerts, aborted, component_vars>>

\* _unclaim_channel: await _caches.claimants.delete(channel.id); then the participants,
\* get_or_fetch_member, the role change, the unpin and the statistics.
_unclaim_channel(t) ==
    /\ t.kind = "unclaim" /\ t.pc = "delete"
    /\ claimants' = Del(claimants, t.chan)
    /\ tasks' = Resumed(tasks, t, [t EXCEPT !.pc = "move"])
    /\ UNCHANGED <<now, events, members, category, channel_queue, name_queue,
                   available_help_channels, claimant_last_message_times,
                   non_claimant_last_message_times, scheduler, locks, init,
                   last_notification, alerts, aborted, component_vars>>

\* move_to_dormant: await _channel.move_to_bottom(channel, help_dormant); then the embed.
move_to_dormant(t) ==
    /\ t.kind = "unclaim" /\ t.pc = "move"
    /\ category' = [category EXCEPT ![t.chan] = "dormant"]
    /\ tasks' = Resumed(tasks, t, [t EXCEPT !.pc = "send"])
    /\ UNCHANGED <<now, events, members, channel_queue, name_queue,
                   available_help_channels, claimants, claimant_last_message_times,
                   non_claimant_last_message_times, scheduler, locks, init,
                   last_notification, alerts, aborted, component_vars>>

\* move_to_dormant: self.channel_queue.put_nowait(channel); _unclaim_channel: the idle timer
\* is cancelled if the channel was closed by the command; the locks are released.
unclaim_channel_finish(t) ==
    /\ t.kind = "unclaim" /\ t.pc = "send"
    /\ LET c == t.chan
           command == t.reason = "command"
       IN  /\ channel_queue' = Append(channel_queue, c)
           /\ scheduler' = task_done(IF command THEN cancel(scheduler, c) ELSE scheduler, t)
           /\ tasks' = IF command THEN detach(Returned(tasks, t), c) ELSE Returned(tasks, t)
           /\ locks' = locks \ {<<UNCLAIM_NAMESPACE, c>>, <<UNCLAIM_NAMESPACE, t.user>>}
           /\ init' = InitResumed(t)
           /\ pushed' = IF \E i \in DOMAIN pushed : pushed[i] = c THEN pushed ELSE Append(pushed, c)
    /\ UNCHANGED <<now, events, members, category, name_queue, available_help_channels,
                   claimants, claimant_last_message_times, non_claimant_last_message_times,
                   last_notification, alerts, aborted, call_vars>>

\* ------------------------------------------------------ move_idle_channel
\* Scheduler._await_later: the delay of the task scheduled for c is over and its coroutine,
\* move_idle_channel(c), starts.
timer_fire(c) ==
    /\ c \in DOMAIN scheduler
    /\ ~scheduler[c].running
    /\ scheduler[c].due <= now
    /\ CanSpawn
    /\ scheduler' = [scheduler EXCEPT ![c].running = TRUE]
    /\ tasks' = Spawned(tasks, Task("move_idle", "closing", c, NoUser, 0, "none", "timer", TRUE))
    /\ UNCHANGED <<now, events, members, category, channel_queue, name_queue,
                   available_help_channels, claimants, claimant_last_message_times,
                   non_claimant_last_message_times, locks, init, last_notification, alerts,
                   aborted, component_vars>>

\* get_closing_time has returned.  A closing time less than a second ahead: unclaim_channel
\* (dropped when the channel's unclaim lock is held).  Otherwise the extant task is
\* cancelled (has_task) and the move is scheduled for the closing time.
move_idle_channel(t) ==
    /\ t.kind = "move_idle" /\ t.pc = "closing"
    /\ \E is_empty \in BOOLEAN, last_message \in 0..now :
        LET c == t.chan
            has_task == t.ret # "init"
            closing_time == get_closing_time(c, is_empty, last_message)
        IN  IF closing_time <= now
            THEN IF Locked(UNCLAIM_NAMESPACE, c)
                 THEN /\ tasks' = Returned(tasks, t)
                      /\ scheduler' = task_done(scheduler, t)
                      /\ init' = InitResumed(t)
                      /\ UNCHANGED locks
                 ELSE /\ tasks' = Resumed(tasks, t, [t EXCEPT !.kind = "unclaim", !.pc = "get", !.reason = "timeout"])
                      /\ locks' = locks \cup {<<UNCLAIM_NAMESPACE, c>>}
                      /\ UNCHANGED <<scheduler, init>>
            ELSE /\ scheduler' = schedule_later(
                                    IF has_task THEN cancel(scheduler, c) ELSE scheduler,
                                    closing_time - now, c)
                 /\ tasks' = IF has_task THEN detach(Returned(tasks, t), c) ELSE Returned(tasks, t)
                 /\ init' = InitResumed(t)
                 /\ UNCHANGED locks
    /\ UNCHANGED <<now, events, members, category, channel_queue, name_queue,
                   available_help_channels, claimants, claimant_last_message_times,
                   non_claimant_last_message_times, last_notification, alerts, aborted, component_vars>>

\* ------------------------------------------------------ on_message_delete
\* on_message_delete without the test of the channel's category.
on_message_delete_any_category(c) ==
    /\ init_done
    /\ events < MaxEvents
    /\ category[c] # "none"
    /\ CanSpawn
    /\ events' = events + 1
    /\ tasks' = Spawned(tasks, Task("delete", "empty", c, NoUser, 0, "none", "task", FALSE))
    /\ UNCHANGED <<now, members, category, channel_queue, name_queue,
                   available_help_channels, claimants, claimant_last_message_times,
                   non_claimant_last_message_times, scheduler, locks, init,
                   last_notification, alerts, aborted, component_vars>>

\* on_message_delete: await self.init_task; a deletion in a channel outside the In Use
\* category is ignored; otherwise _message.is_empty is awaited.
on_message_delete(c) ==
    /\ init_done
    /\ events < MaxEvents
    /\ category[c] # "none"
    /\ events' = events + 1
    /\ IF category[c] = "in_use"
       THEN /\ CanSpawn
            /\ tasks' = Spawned(tasks, Task("delete", "empty", c, NoUser, 0, "none", "task", FALSE))
       ELSE UNCHANGED tasks
    /\ UNCHANGED <<now, members, category, channel_queue, name_queue,
                   available_help_channels, claimants, claimant_last_message_times,
                   non_claimant_last_message_times, scheduler, locks, init,
                   last_notification, alerts, aborted, component_vars>>

\* _message.is_empty has returned: an empty channel gets its task cancelled and a new one
\* scheduled after deleted_idle_minutes.
on_message_delete_empty(t) ==
    /\ t.kind = "delete" /\ t.pc = "empty"
    /\ \E is_empty \in BOOLEAN :
        IF is_empty
        THEN /\ scheduler' = schedule_later(cancel(scheduler, t.chan),
                                            deleted_idle_minutes, t.chan)
             /\ tasks' = detach(Returned(tasks, t), t.chan)
        ELSE /\ tasks' = Returned(tasks, t)
             /\ UNCHANGED scheduler
    /\ UNCHANGED <<now, events, members, category, channel_queue, name_queue,
                   available_help_channels, claimants, claimant_last_message_times,
                   non_claimant_last_message_times, locks, init, last_notification, alerts,
                   aborted, component_vars>>

\* ------------------------------------------------------ move_to_available
\* _message.notify: whether an alert is due, given self.last_notification.
should_send ==
    IF last_notification # ArrowMin
    THEN ((now - last_notification) % MinutesPerDay) >= notify_minutes
    ELSE TRUE

\* get_available_candidate with a create_dormant that reads the first name of the pool and
\* leaves it there.
get_available_candidate_keeps_name(t) ==
    /\ t.kind = "move_to_available" /\ t.pc = "start"
    /\ IF channel_queue # <<>>
       THEN /\ channel_queue' = Tail(channel_queue)
            /\ tasks' = Resumed(tasks, t, [t EXCEPT !.pc = "move", !.chan = Head(channel_queue)])
       ELSE IF name_queue # <<>>
       THEN /\ tasks' = Resumed(tasks, t, [t EXCEPT !.pc = "create", !.chan = Head(name_queue)])
            /\ UNCHANGED channel_queue
       ELSE /\ tasks' = Resumed(tasks, t, [t EXCEPT !.pc = IF should_send THEN "notify" ELSE "wait"])
            /\ UNCHANGED channel_queue
    /\ UNCHANGED <<now, events, members, category, name_queue, available_help_channels, claimants,
                   claimant_last_message_times, non_claimant_last_message_times,
                   scheduler, locks, init, last_notification, alerts, aborted, component_vars>>

\* get_available_candidate trying create_dormant before the dormant queue.
get_available_candidate_name_first(t) ==
    /\ t.kind = "move_to_available" /\ t.pc = "start"
    /\ IF name_queue # <<>>
       THEN /\ name_queue' = Tail(name_queue)
            /\ tasks' = Resumed(tasks, t, [t EXCEPT !.pc = "create", !.chan = Head(name_queue)])
            /\ UNCHANGED channel_queue
       ELSE IF channel_queue # <<>>
       THEN /\ channel_queue' = Tail(channel_queue)
            /\ tasks' = Resumed(tasks, t, [t EXCEPT !.pc = "move", !.chan = Head(channel_queue)])
            /\ UNCHANGED name_queue
       ELSE /\ tasks' = Resumed(tasks, t, [t EXCEPT !.pc = IF should_send THEN "notify" ELSE "wait"])
            /\ UNCHANGED <<channel_queue, name_queue>>
    /\ UNCHANGED <<now, events, members, category, available_help_channels, claimants,
                   claimant_last_message_times, non_claimant_last_message_times,
                   scheduler, locks, init, last_notification, alerts, aborted, component_vars>>

\* get_available_candidate: channel_queue.get_nowait(); on QueueEmpty create_dormant takes a
\* name; with no name left notify is called and then wait_for_dormant_channel.
get_available_candidate(t) ==
    /\ t.kind = "move_to_available" /\ t.pc = "start"
    /\ IF channel_queue # <<>>
       THEN /\ channel_queue' = Tail(channel_queue)
            /\ tasks' = Resumed(tasks, t, [t EXCEPT !.pc = "move", !.chan = Head(channel_queue)])
            /\ UNCHANGED name_queue
       ELSE IF name_queue # <<>>
       THEN /\ name_queue' = Tail(name_queue)
            /\ tasks' = Resumed(tasks, t, [t EXCEPT !.pc = "create", !.chan = Head(name_queue)])
            /\ UNCHANGED channel_queue
       ELSE /\ tasks' = Resumed(tasks, t, [t EXCEPT !.pc = IF should_send THEN "notify" ELSE "wait"])
            /\ UNCHANGED <<channel_queue, name_queue>>
    /\ UNCHANGED <<now, events, members, category, available_help_channels, claimants,
                   claimant_last_message_times, non_claimant_last_message_times,
                   scheduler, locks, init, last_notification, alerts, aborted, component_vars>>

\* create_dormant with the channel created outside the Dormant category.
create_dormant_uncategorised(t) ==
    /\ t.kind = "move_to_available" /\ t.pc = "create"
    /\ tasks' = Resumed(tasks, t, [t EXCEPT !.pc = "move"])
    /\ UNCHANGED <<now, events, members, category, channel_queue, name_queue,
                   available_help_channels, claimants, claimant_last_message_times,
                   non_claimant_last_message_times, scheduler, locks, init,
                   last_notification, alerts, aborted, component_vars>>

\* create_dormant: await self.dormant_category.create_text_channel(name)
create_dormant(t) ==
    /\ t.kind = "move_to_available" /\ t.pc = "create"
    /\ category' = [category EXCEPT ![t.chan] = "dormant"]
    /\ tasks' = Resumed(tasks, t, [t EXCEPT !.pc = "move"])
    /\ UNCHANGED <<now, events, members, channel_queue, name_queue,
                   available_help_channels, claimants, claimant_last_message_times,
                   non_claimant_last_message_times, scheduler, locks, init,
                   last_notification, alerts, aborted, component_vars>>

\* _message.notify: the alert is sent; self.last_notification = its creation time.
notify(t) ==
    /\ t.kind = "move_to_available" /\ t.pc = "notify"
    /\ alerts' = Append(alerts, now)
    /\ last_notification' = now
    /\ tasks' = Resumed(tasks, t, [t EXCEPT !.pc = "wait"])
    /\ UNCHANGED <<now, events, members, category, channel_queue, name_queue,
                   available_help_channels, claimants, claimant_last_message_times,
                   non_claimant_last_message_times, scheduler, locks, init, aborted, component_vars>>

\* wait_for_dormant_channel: channel = await self.channel_queue.get()
wait_for_dormant_channel(t) ==
    /\ t.kind = "move_to_available" /\ t.pc = "wait"
    /\ channel_queue # <<>>
    /\ channel_queue' = Tail(channel_queue)
    /\ tasks' = Resumed(tasks, t, [t EXCEPT !.pc = "move", !.chan = Head(channel_queue)])
    /\ UNCHANGED <<now, events, members, category, name_queue, available_help_channels,
                   claimants, claimant_last_message_times, non_claimant_last_message_times,
                   scheduler, locks, init, last_notification, alerts, aborted, component_vars>>

\* move_to_available: the available message is sent, the channel is moved to the Available
\* category and added to available_help_channels.
move_to_available(t) ==
    /\ t.kind = "move_to_available" /\ t.pc = "move"
    /\ category' = [category EXCEPT ![t.chan] = "available"]
    /\ available_help_channels' = available_help_channels \cup {t.chan}
    /\ tasks' = Returned(tasks, t)
    /\ init' = InitResumed(t)
    /\ pushed' = SeqFilter(pushed, Channels \ {t.chan})
    /\ UNCHANGED <<now, events, members, channel_queue, name_queue, claimants,
                   claimant_last_message_times, non_claimant_last_message_times,
                   scheduler, locks, last_notification, alerts, aborted, call_vars>>

\* ------------------------------------------------------------ environment
\* A coroutine that cannot go on: it waits for the dormant queue or for a lock.
Blocked(t) ==
    \/ t.kind = "move_to_available" /\ t.pc = "wait" /\ channel_queue = <<>>
    \/ t.pc = "lock" /\ Locked(UNCLAIM_NAMESPACE, t.user)

\* A minute passes.  The steps of a coroutine take no time on this scale: the clock
\* advances only when every coroutine is blocked.
Tick ==
    /\ now < MaxTime
    /\ \A t \in Running : Blocked(t)
    /\ init.pc \in {"start", "done"} \/ init.busy
    /\ now' = now + 1
    /\ UNCHANGED <<events, members, category, channel_queue, name_queue,
                   available_help_channels, claimants, claimant_last_message_times,
                   non_claimant_last_message_times, scheduler, locks, tasks, init,
                   last_notification, alerts, aborted, component_vars>>

\* The claimant of a channel leaves the guild.
member_leave(u) ==
    /\ u \in members
    /\ events < MaxEvents
    /\ \E c \in DOMAIN claimants : claimants[c] = u
    /\ members' = members \ {u}
    /\ events' = events + 1
    /\ UNCHANGED <<now, category, channel_queue, name_queue, available_help_channels,
                   claimants, claimant_last_message_times, non_claimant_last_message_times,
                   scheduler, locks, tasks, init, last_notification, alerts, aborted, component_vars>>

\* ------------------------------------------------------------------ Next
Next ==
    \/ init_cog
    \/ init_move_idle
    \/ init_available
    \/ init_fill
    \/ init_cleanup
    \/ init_ready
    \/ \E c \in Channels \cup ExcludedChannels, u \in Users \cup Bots : on_message(c, u)
    \/ \E c \in Channels, u \in Users : close_command(c, u)
    \/ \E c \in Channels : on_message_delete(c)
    \/ \E c \in Channels : timer_fire(c)
    \/ \E u \in Users : member_leave(u)
    \/ \E t \in Running : claim_channel_wait(t)
    \/ \E t \in Running : move_to_in_use(t)
    \/ \E t \in Running : claim_channel_claimant(t)
    \/ \E t \in Running : claim_channel_finish(t)
    \/ \E t \in Running : notify_session_participants(t)
    \/ \E t \in Running : update_message_caches(t)
    \/ \E t \in Running : update_message_caches_set(t)
    \/ \E t \in Running : close_check(t)
    \/ \E t \in Running : unclaim_channel(t)
    \/ \E t \in Running : unclaim_channel_wait(t)
    \/ \E t \in Running : _unclaim_channel(t)
    \/ \E t \in Running : move_to_dormant(t)
    \/ \E t \in Running : unclaim_channel_finish(t)
    \/ \E t \in Running : move_idle_channel(t)
    \/ \E t \in Running : on_message_delete_empty(t)
    \/ \E t \in Running : get_available_candidate(t)
    \/ \E t \in Running : create_dormant(t)
    \/ \E t \in Running : notify(t)
    \/ \E t \in Running : wait_for_dormant_channel(t)
    \/ \E t \in Running : move_to_available(t)
    \/ Tick

Spec == Init /\ [][Next]_vars

\* A step of a coroutine of the cog that is not blocked.
CoroutineStep ==
    \E t \in Running :
        \/ claim_channel_wait(t) \/ move_to_in_use(t) \/ claim_channel_claimant(t)
        \/ claim_channel_finish(t) \/ notify_session_participants(t)
        \/ update_message_caches(t) \/ update_message_caches_set(t) \/ close_check(t)
        \/ unclaim_channel(t) \/ unclaim_channel_wait(t) \/ _unclaim_channel(t)
        \/ move_to_dormant(t) \/ unclaim_channel_finish(t) \/ move_idle_channel(t)
        \/ on_message_delete_empty(t) \/ get_available_candidate(t) \/ create_dormant(t)
        \/ notify(t) \/ wait_for_dormant_channel(t) \/ move_to_available(t)

InitStep ==
    init_cog \/ init_move_idle \/ init_available \/ init_fill \/ init_cleanup \/ init_ready

\* The event loop resumes every coroutine that can go on and runs every timer that is due;
\* messages, commands and the passing of time are up to the environment.
FairSpec ==
    /\ Spec
    /\ WF_vars(CoroutineStep)
    /\ WF_vars(InitStep)
    /\ WF_vars(\E c \in Channels : timer_fire(c))

\* ================================================================ claims
\* ================================================================== cog_unload
\* The locks a cancelled coroutine gives back.
HeldBy(t) ==
    IF t.kind # "unclaim" THEN {}
    ELSE {<<UNCLAIM_NAMESPACE, t.chan>>}
         \cup (IF t.pc \in {"delete", "move", "send"} /\ t.user # NoUser
               THEN {<<UNCLAIM_NAMESPACE, t.user>>} ELSE {})

\* cog_unload cancels init_task, and with it the coroutine init_cog awaits; the tasks of
\* queue_tasks, each of which ends the move_to_available that awaits it; and every task of
\* the scheduler (a task whose move_idle_channel has started is shielded and goes on).  The
\* listeners and the command are gone with the cog.
cog_unload ==
    /\ init.pc # "unloaded"
    /\ LET cancelled == {t \in Running : \/ t.ret = "init"
                                         \/ t.kind = "move_to_available" /\ t.pc = "wait"}
           kept == [t \in Running \ cancelled |-> tasks[t]]
       IN  /\ tasks' = detach_all(kept, {t \in DOMAIN kept : t.sched})
           /\ locks' = locks \ UNION {HeldBy(t) : t \in cancelled}
    /\ scheduler' = Empty
    /\ init' = [pc |-> "unloaded", todo |-> <<>>, missing |-> 0, busy |-> FALSE]
    /\ UNCHANGED <<now, events, members, category, channel_queue, name_queue,
                   available_help_channels, claimants, claimant_last_message_times,
                   non_claimant_last_message_times, last_notification, alerts, aborted,
                   component_vars>>

NextUnload ==
    \/ Next
    \/ cog_unload

SpecUnload == Init /\ [][NextUnload]_vars

\* ------------------------------------------------ one more question after the events
\* on_message for a message of a member in an Available channel that is not excluded, sent
\* when the MaxEvents events have happened and the claims and unclaims they started have
\* ended (refill tasks may still run): claim_channel is called under its three lock
\* decorators.
on_message_available(c, u) ==
    /\ events = MaxEvents
    /\ \A t \in Running : t.kind = "move_to_available"
    /\ u \in members
    /\ init_done
    /\ in_category(c, "available")
    /\ ~is_excluded_channel(c)
    /\ CanSpawn
    /\ events' = events + 1
    /\ IF Locked(NAMESPACE, c) \/ Locked(NAMESPACE, u)
       THEN UNCHANGED <<locks, tasks>>
       ELSE IF Locked(UNCLAIM_NAMESPACE, u)
       THEN /\ locks' = locks \cup {<<NAMESPACE, c>>, <<NAMESPACE, u>>}
            /\ tasks' = Spawned(tasks, Task("claim", "lock", c, u, now,
                                            "none", "task", FALSE))
       ELSE /\ locks' = locks \cup {<<NAMESPACE, c>>, <<NAMESPACE, u>>,
                                     <<UNCLAIM_NAMESPACE, u>>}
            /\ tasks' = Spawned(tasks, Task("claim", "move", c, u, now,
                                            "none", "task", FALSE))
    /\ aborted' = IF Locked(NAMESPACE, c)
                  THEN aborted \cup {<<NAMESPACE, c>>}
                  ELSE IF Locked(NAMESPACE, u)
                  THEN aborted \cup {<<NAMESPACE, u>>}
                  ELSE aborted
    /\ UNCHANGED <<now, members, category, channel_queue, name_queue,
                   available_help_channels, claimants, claimant_last_message_times,
                   non_claimant_last_message_times, scheduler, init, last_notification, alerts,
                   component_vars>>

NextQuestion ==
    \/ Next
    \/ \E c \in Channels, u \in Users : on_message_available(c, u)

SpecQuestion == Init /\ [][NextQuestion]_vars

\* ================================================================== the dynamic message
\* update_available_help_channels keeps one message of #how-to-get-help that lists the
\* Available channels.  init_cog reads the remembered id from the cache and init_available
\* rebuilds the message (each call awaited); afterwards every move_to_available task
\* rebuilds it, and these tasks run concurrently.
MaxRebuilds == 2    \* update_available_help_channels coroutines alive at the same time
MaxCalls == 4       \* calls of update_available_help_channels
MaxDeletes == 1     \* summary messages deleted by somebody else

\* The pools while only the dynamic message is looked at.
HelpIdle ==
    /\ now = 0
    /\ events = 0
    /\ members = Users
    /\ category = [c \in Channels |-> "none"]
    /\ claimants = Empty
    /\ claimant_last_message_times = Empty
    /\ non_claimant_last_message_times = Empty
    /\ channel_queue = <<>>
    /\ name_queue = <<>>
    /\ available_help_channels = {}
    /\ scheduler = Empty
    /\ locks = {}
    /\ tasks = EmptyBag
    /\ init = [pc |-> "start", todo |-> <<>>, missing |-> 0, busy |-> FALSE]
    /\ last_notification = ArrowMin
    /\ alerts = <<>>
    /\ aborted = {}
    /\ pushed = <<>>

\* What an earlier run left: nothing, a summary message whose id is cached, or a cached id
\* whose message is gone.
DynamicInit ==
    /\ HelpIdle
    /\ CallsIdle
    /\ dynamic_message = NoMessage
    /\ \E left \in {<<NoMessage, {}>>, <<1, {1}>>, <<1, {}>>} :
          /\ dynamic_cache = left[1]
          /\ summary_messages = left[2]
    /\ next_message_id = 2
    /\ rebuilds = EmptyBag
    /\ dynamic = [pc |-> "fetch", calls |-> 0, deletes |-> 0]

\* init_cog: self.dynamic_message = await _caches.dynamic_message.get("message_id")
dynamic_fetch ==
    /\ dynamic.pc = "fetch"
    /\ dynamic_message' = dynamic_cache
    /\ dynamic' = [dynamic EXCEPT !.pc = "init"]
    /\ UNCHANGED <<dynamic_rest, dynamic_cache, summary_messages, next_message_id, rebuilds>>

\* A call of update_available_help_channels, up to its first await: with an id remembered
\* the message of that id is edited, otherwise a new message is sent.  The calls of
\* init_available are awaited one after the other; those of the move_to_available tasks
\* overlap.
update_available_help_channels ==
    /\ dynamic.pc \in {"init", "ready"}
    /\ dynamic.calls < MaxCalls
    /\ IF dynamic.pc = "init" THEN rebuilds = EmptyBag ELSE BagCardinality(rebuilds) < MaxRebuilds
    /\ rebuilds' = rebuilds (+) SetToBag({[pc |-> IF dynamic_message # NoMessage THEN "edit" ELSE "send",
                                           id |-> dynamic_message]})
    /\ dynamic' = [dynamic EXCEPT !.calls = dynamic.calls + 1]
    /\ UNCHANGED <<dynamic_rest, dynamic_message, dynamic_cache, summary_messages, next_message_id>>

\* init_available has awaited its last update_available_help_channels: the cog is ready.
dynamic_ready ==
    /\ dynamic.pc = "init"
    /\ dynamic.calls > 0
    /\ rebuilds = EmptyBag
    /\ dynamic' = [dynamic EXCEPT !.pc = "ready"]
    /\ UNCHANGED <<dynamic_rest, dynamic_message, dynamic_cache, summary_messages,
                   next_message_id, rebuilds>>

\* bot.http.edit_message has returned: on success the call returns, on discord.NotFound it
\* goes on to send a new message.
edit_message(t) ==
    /\ t.pc = "edit"
    /\ rebuilds' = IF t.id \in summary_messages
                   THEN rebuilds (-) SetToBag({t})
                   ELSE (rebuilds (-) SetToBag({t})) (+) SetToBag({[t EXCEPT !.pc = "send"]})
    /\ UNCHANGED <<dynamic_rest, dynamic_message, dynamic_cache, summary_messages,
                   next_message_id, dynamic>>

\* bot.http.send_message has returned: self.dynamic_message = new_dynamic_message["id"],
\* and the cache write is started with that id.
send_message(t) ==
    /\ t.pc = "send"
    /\ summary_messages' = summary_messages \cup {next_message_id}
    /\ next_message_id' = next_message_id + 1
    /\ dynamic_message' = next_message_id
    /\ rebuilds' = (rebuilds (-) SetToBag({t})) (+) SetToBag({[pc |-> "cache", id |-> next_message_id]})
    /\ UNCHANGED <<dynamic_rest, dynamic_cache, dynamic>>

\* _caches.dynamic_message.set("message_id", self.dynamic_message) has returned.
dynamic_cache_set(t) ==
    /\ t.pc = "cache"
    /\ dynamic_cache' = t.id
    /\ rebuilds' = rebuilds (-) SetToBag({t})
    /\ UNCHANGED <<dynamic_rest, dynamic_message, summary_messages, next_message_id, dynamic>>

\* Somebody deletes a summary message; a later edit of it raises discord.NotFound.
delete_summary_message(m) ==
    /\ dynamic.pc # "idle"
    /\ dynamic.deletes < MaxDeletes
    /\ m \in summary_messages
    /\ summary_messages' = summary_messages \ {m}
    /\ dynamic' = [dynamic EXCEPT !.deletes = dynamic.deletes + 1]
    /\ UNCHANGED <<dynamic_rest, dynamic_message, dynamic_cache, next_message_id, rebuilds>>

DynamicNext ==
    \/ dynamic_fetch
    \/ update_available_help_channels
    \/ dynamic_ready
    \/ \E t \in BagToSet(rebuilds) : edit_message(t)
    \/ \E t \in BagToSet(rebuilds) : send_message(t)
    \/ \E t \in BagToSet(rebuilds) : dynamic_cache_set(t)
    \/ \E m \in summary_messages : delete_summary_message(m)

SpecDynamic == DynamicInit /\ [][DynamicNext]_vars

\* ================================================================== errors during a claim
\* One call of claim_channel by u1 for a message in an Available channel, with the
\* responses Discord gives to the requests it makes.  claim_io.raised is the exception that
\* leaves claim_channel, "none" while there is none.
RoleOutcomes == {"ok", "NotFound", "Forbidden", "HTTPException"}
DmOutcomes == {"ok", "Forbidden", "HTTPException"}
EditOutcomes == {"ok", "HTTPException"}

claim_io_rest == <<help_vars, dynamic_vars, rule_io, jam_io, wait_io, unclaim_io, notify_io, infraction_io>>

ClaimInit ==
    /\ HelpIdle
    /\ DynamicIdle
    /\ rule_io = NoCall
    /\ jam_io = NoCall
    /\ wait_io = NoCall
    /\ unclaim_io = NoCall
    /\ notify_io = NoCall
    /\ infraction_io = NoCall
    /\ \E member \in BOOLEAN, move \in EditOutcomes, role \in RoleOutcomes,
          dm \in DmOutcomes, pin \in EditOutcomes, old \in {NoUser, "u2"} :
          claim_io = [pc |-> "move_to_in_use", author |-> "u1",
                      is_member |-> member, move |-> move, role |-> role, dm |-> dm, pin |-> pin,
                      pool |-> "available", timer |-> FALSE, cooldown |-> FALSE,
                      dm_sent |-> FALSE, pinned |-> FALSE, claimant |-> old,
                      times |-> FALSE, listed |-> TRUE, refill |-> FALSE,
                      logged |-> {}, raised |-> "none"]

\* claim_channel: await self.move_to_in_use(message.channel).  move_to_bottom either moves
\* the channel, after which the idle timer is scheduled, or raises; nothing catches it.
claim_io_move_to_in_use ==
    /\ claim_io.pc = "move_to_in_use"
    /\ claim_io' =
         IF claim_io.move = "ok"
         THEN [claim_io EXCEPT !.pool = "in_use", !.timer = TRUE,
                               !.pc = IF claim_io.is_member THEN "role" ELSE "pin",
                               !.logged = IF claim_io.is_member THEN @ ELSE @ \cup {"warning"}]
         ELSE [claim_io EXCEPT !.pc = "raised", !.raised = claim_io.move]
    /\ UNCHANGED claim_io_rest

\* A variant of _handle_role_change that catches NotFound and Forbidden only.
_handle_role_change_no_http ==
    /\ claim_io.pc = "role"
    /\ claim_io' =
         CASE claim_io.role = "ok" -> [claim_io EXCEPT !.cooldown = TRUE, !.pc = "dm"]
           [] claim_io.role \in {"NotFound", "Forbidden"} ->
                [claim_io EXCEPT !.logged = @ \cup {"debug"}, !.pc = "dm"]
           [] OTHER -> [claim_io EXCEPT !.pc = "raised", !.raised = claim_io.role]
    /\ UNCHANGED claim_io_rest

\* _handle_role_change(message.author, message.author.add_roles): the three exceptions
\* are logged, NotFound and Forbidden at debug level, any other HTTPException as an error.
_handle_role_change ==
    /\ claim_io.pc = "role"
    /\ claim_io' =
         CASE claim_io.role = "ok" -> [claim_io EXCEPT !.cooldown = TRUE, !.pc = "dm"]
           [] claim_io.role \in {"NotFound", "Forbidden"} ->
                [claim_io EXCEPT !.logged = @ \cup {"debug"}, !.pc = "dm"]
           [] OTHER -> [claim_io EXCEPT !.logged = @ \cup {"error"}, !.pc = "dm"]
    /\ UNCHANGED claim_io_rest

\* _message.dm_on_open ignores Forbidden (DMs disabled); claim_channel catches every other
\* exception and logs a warning.
dm_on_open ==
    /\ claim_io.pc = "dm"
    /\ claim_io' =
         CASE claim_io.dm = "ok" -> [claim_io EXCEPT !.dm_sent = TRUE, !.pc = "pin"]
           [] claim_io.dm = "Forbidden" -> [claim_io EXCEPT !.logged = @ \cup {"trace"}, !.pc = "pin"]
           [] OTHER -> [claim_io EXCEPT !.logged = @ \cup {"warning"}, !.pc = "pin"]
    /\ UNCHANGED claim_io_rest

\* _message.pin: pin_wrapper returns False on an HTTPException, and the question message
\* is then not recorded.
pin ==
    /\ claim_io.pc = "pin"
    /\ claim_io' =
         IF claim_io.pin = "ok"
         THEN [claim_io EXCEPT !.pinned = TRUE, !.pc = "claimants"]
         ELSE [claim_io EXCEPT !.logged = @ \cup {"exception"}, !.pc = "claimants"]
    /\ UNCHANGED claim_io_rest

\* await _caches.claimants.set(message.channel.id, message.author.id)
claim_io_claimant ==
    /\ claim_io.pc = "claimants"
    /\ claim_io' = [claim_io EXCEPT !.claimant = claim_io.author, !.pc = "times"]
    /\ UNCHANGED claim_io_rest

\* The rest of claim_channel: the three timestamp caches, the channel taken off the
\* dynamic message, and the move_to_available task created.
claim_io_finish ==
    /\ claim_io.pc = "times"
    /\ claim_io' = [claim_io EXCEPT !.times = TRUE, !.listed = FALSE, !.refill = TRUE,
                                    !.pc = "done"]
    /\ UNCHANGED claim_io_rest

ClaimNext ==
    \/ claim_io_move_to_in_use
    \/ _handle_role_change
    \/ dm_on_open
    \/ pin
    \/ claim_io_claimant
    \/ claim_io_finish

SpecClaim == ClaimInit /\ [][ClaimNext]_vars

\* ================================================================== the mentions rule
\* bot.rules.mentions.apply(last_message, recent_messages, config), run on the histories
\* that tests/bot/rules/test_mentions.py builds with make_msg.  recent_messages[1] is the
\* most recent message.
MaxMessages == 3        \* messages of a history
MaxUserMentions == 3    \* total_user_mentions of a message
MaxBotMentions == 1     \* total_bot_mentions of a message
MaxAddedBots == 2       \* bot mentions added to a message

mentions_max == 2
mentions_interval == 10

Authors == {"bob", "alice"}

None == [report |-> "None"]

rule_io_rest == <<help_vars, dynamic_vars, claim_io, jam_io, wait_io, unclaim_io, notify_io, infraction_io>>

Repeat(x, n) == [i \in 1..n |-> x]

\* make_msg: user_mentions + bot_mentions, a list of members.
make_msg(author, total_user_mentions, total_bot_mentions) ==
    [author |-> author,
     mentions |-> Repeat([bot |-> FALSE], total_user_mentions)
                  \o Repeat([bot |-> TRUE], total_bot_mentions)]

\* A test case: the arguments of the make_msg calls of a history.
Cases ==
    UNION {[1..n -> [author : Authors, users : 0..MaxUserMentions, bots : 0..MaxBotMentions]] :
              n \in 1..MaxMessages}

MakeHistory(case) == [i \in 1..Len(case) |-> make_msg(case[i].author, case[i].users, case[i].bots)]

\* The messages of the author of last_message, in the order of the history.
relevant_messages(last_message, recent_messages) ==
    LET by_author(msg) == msg.author = last_message.author
    IN  SelectSeq(recent_messages, by_author)

\* The mentions of a message that count, bots included.
count_mentions_with_bots(msg) == Len(msg.mentions)

\* The mentions of a message that count: those of members that are not bots.
count_mentions(msg) ==
    LET is_user(member) == ~member.bot
    IN  Len(SelectSeq(msg.mentions, is_user))

RECURSIVE SumMentions(_)
SumMentions(msgs) ==
    IF msgs = <<>> THEN 0 ELSE count_mentions(Head(msgs)) + SumMentions(Tail(msgs))

\* A threshold that is reached, not exceeded.
exceeds_or_reaches(total, max) == total >= max

exceeds(total, max) == total > max

\* What apply returns: None, or the report, the offending members and the messages.
mentions_apply(last_message, recent_messages) ==
    LET relevant == relevant_messages(last_message, recent_messages)
        total_recent_mentions == SumMentions(relevant)
    IN  IF exceeds(total_recent_mentions, mentions_max)
        THEN [report |-> [sent |-> total_recent_mentions, interval |-> mentions_interval],
              members |-> <<last_message.author>>,
              messages |-> relevant]
        ELSE None

RuleInit ==
    /\ HelpIdle
    /\ DynamicIdle
    /\ claim_io = NoCall
    /\ jam_io = NoCall
    /\ wait_io = NoCall
    /\ unclaim_io = NoCall
    /\ notify_io = NoCall
    /\ infraction_io = NoCall
    /\ \E case \in Cases :
          rule_io = [pc |-> "start", case |-> case, recent_messages |-> MakeHistory(case),
                     result |-> None]

\* The anti-spam cog runs the rule on the history.
apply ==
    /\ rule_io.pc = "start"
    /\ rule_io' = [rule_io EXCEPT
                     !.result = mentions_apply(rule_io.recent_messages[1], rule_io.recent_messages),
                     !.pc = "done"]
    /\ UNCHANGED rule_io_rest

RuleNext == apply

SpecRule == RuleInit /\ [][RuleNext]_vars

\* ================================================================== code jam categories
\* bot.exts.events.code_jams._channels._get_category(guild), called on a guild whose
\* categories are listed in jam_io.listing; a category is its id, its name and the number
\* of its channels.
MaxCategories == 3      \* categories of the guild before the call

MAX_CHANNELS == 50
CATEGORY_NAME == "Code Jam"

NoCategory == 0

jam_io_rest == <<help_vars, dynamic_vars, claim_io, rule_io, wait_io, unclaim_io, notify_io, infraction_io>>

\* get_mock_category(channel_count, name), for the counts and names of the tests.
MockCategories ==
    [name : {CATEGORY_NAME, "other"},
     channels : {0, MAX_CHANNELS - 2, MAX_CHANNELS - 1, MAX_CHANNELS}]

Listings ==
    UNION {[1..n -> MockCategories] : n \in 0..MaxCategories}

JamInit ==
    /\ HelpIdle
    /\ DynamicIdle
    /\ claim_io = NoCall
    /\ rule_io = NoCall
    /\ wait_io = NoCall
    /\ unclaim_io = NoCall
    /\ notify_io = NoCall
    /\ infraction_io = NoCall
    /\ \E listing \in Listings :
          LET categories == [i \in 1..Len(listing) |->
                                [id |-> i, name |-> listing[i].name, channels |-> listing[i].channels]]
          IN  jam_io = [pc |-> "start", listing |-> categories, categories |-> categories,
                        created |-> 0, updates |-> 0, result |-> NoCategory]

\* A category taken although it is full.
has_room_when_full(jam_category) == jam_category.channels <= MAX_CHANNELS

\* len(category.channels) < MAX_CHANNELS
has_room(jam_category) == jam_category.channels < MAX_CHANNELS

\* for category in guild.categories: the first one of the name that has room, from
\* position i on; NoCategory when the loop ends.
RECURSIVE first_category(_, _)
first_category(categories, i) ==
    IF i > Len(categories) THEN NoCategory
    ELSE IF categories[i].name = CATEGORY_NAME /\ has_room(categories[i])
         THEN categories[i].id
         ELSE first_category(categories, i + 1)

\* _get_category up to its return or to the await of _create_category.
_get_category ==
    /\ jam_io.pc = "start"
    /\ LET found == first_category(jam_io.categories, 1)
       IN  jam_io' = IF found # NoCategory
                     THEN [jam_io EXCEPT !.result = found, !.pc = "done"]
                     ELSE [jam_io EXCEPT !.pc = "create"]
    /\ UNCHANGED jam_io_rest

\* _create_category: guild.create_category_channel(CATEGORY_NAME, ...) has returned.
_create_category ==
    /\ jam_io.pc = "create"
    /\ LET created == [id |-> Len(jam_io.categories) + 1, name |-> CATEGORY_NAME, channels |-> 0]
       IN  jam_io' = [jam_io EXCEPT !.categories = Append(@, created),
                                    !.created = @ + 1,
                                    !.result = created.id,
                                    !.pc = "status"]
    /\ UNCHANGED jam_io_rest

\* _send_status_update has returned; _create_category and _get_category return the category.
_send_status_update ==
    /\ jam_io.pc = "status"
    /\ jam_io' = [jam_io EXCEPT !.updates = @ + 1, !.pc = "done"]
    /\ UNCHANGED jam_io_rest

JamNext ==
    \/ _get_category
    \/ _create_category
    \/ _send_status_update

SpecJam == JamInit /\ [][JamNext]_vars

\* ================================================================== wait_for_deletion
\* bot.utils.messages.wait_for_deletion(message, user_ids, deletion_emojis, timeout,
\* attach_emojis, allow_mods), with the reaction_add events of the gateway, the expiry of
\* the timeout and the deletion of the message by somebody else.  A reaction is its emoji
\* and its user; "mod" has a role of MODERATION_ROLES, "bot" is bot.instance.user.
MaxReactions == 2       \* reaction_add events

Reactors == {"bot", "author", "mod", "other"}
MODERATORS == {"mod"}
ReactionEmojis == {"trashcan", "x", "thumbs"}

wait_io_rest == <<help_vars, dynamic_vars, claim_io, rule_io, jam_io, unclaim_io, notify_io, infraction_io>>

WaitInit ==
    /\ HelpIdle
    /\ DynamicIdle
    /\ claim_io = NoCall
    /\ rule_io = NoCall
    /\ jam_io = NoCall
    /\ unclaim_io = NoCall
    /\ notify_io = NoCall
    /\ infraction_io = NoCall
    /\ \E guild \in BOOLEAN, attach_emojis \in BOOLEAN, allow_mods \in BOOLEAN,
          user_ids \in {{}, {"author"}}, deletion_emojis \in {<<"trashcan">>, <<"trashcan", "x">>} :
          wait_io = [pc |-> "start", guild |-> guild, attach_emojis |-> attach_emojis,
                     allow_mods |-> allow_mods, user_ids |-> user_ids,
                     deletion_emojis |-> deletion_emojis, todo |-> <<>>,
                     exists |-> TRUE, reactions |-> {}, removing |-> {},
                     events |-> 0, timed_out |-> FALSE, accepted |-> FALSE,
                     allowed_in_time |-> FALSE, cleared |-> FALSE,
                     deleted_by |-> "none", raised |-> "none"]

\* reaction_check without the allow_mods test: every moderator is let through.
reaction_check_mods_always(user, emoji, on_this, allowed_emoji, allowed_users, allow_mods) ==
    LET right_reaction == user # "bot" /\ on_this /\ (\E k \in DOMAIN allowed_emoji : allowed_emoji[k] = emoji)
        is_moderator == user \in MODERATORS
    IN  right_reaction /\ (user \in allowed_users \/ is_moderator)

\* reaction_check: the value it returns.
reaction_check(user, emoji, on_this, allowed_emoji, allowed_users, allow_mods) ==
    LET right_reaction == user # "bot" /\ on_this /\ (\E k \in DOMAIN allowed_emoji : allowed_emoji[k] = emoji)
        is_moderator == allow_mods /\ user \in MODERATORS
    IN  right_reaction /\ (user \in allowed_users \/ is_moderator)

\* reaction_check: the reaction of a user who is not allowed is to be removed.
reaction_removed(user, emoji, on_this, allowed_emoji, allowed_users, allow_mods) ==
    /\ user # "bot" /\ on_this /\ (\E k \in DOMAIN allowed_emoji : allowed_emoji[k] = emoji)
    /\ ~reaction_check(user, emoji, on_this, allowed_emoji, allowed_users, allow_mods)

\* wait_for_deletion up to its first await: ValueError outside a guild; the emojis are
\* attached one request after the other; without any the listener of wait_for is set up.
wait_for_deletion ==
    /\ wait_io.pc = "start"
    /\ wait_io' =
         IF ~wait_io.guild
         THEN [wait_io EXCEPT !.pc = "done", !.raised = "ValueError"]
         ELSE IF wait_io.attach_emojis
         THEN [wait_io EXCEPT !.pc = "attach", !.todo = wait_io.deletion_emojis]
         ELSE [wait_io EXCEPT !.pc = "wait"]
    /\ UNCHANGED wait_io_rest

\* await message.add_reaction(emoji) has returned; discord.NotFound ends the call.
add_reaction ==
    /\ wait_io.pc = "attach"
    /\ wait_io' =
         IF ~wait_io.exists
         THEN [wait_io EXCEPT !.pc = "done"]
         ELSE [wait_io EXCEPT !.reactions = @ \cup {<<Head(wait_io.todo), "bot">>},
                              !.todo = Tail(@),
                              !.pc = IF Tail(wait_io.todo) = <<>> THEN "wait" ELSE "attach"]
    /\ UNCHANGED wait_io_rest

\* A reaction_add event.  It reaches reaction_check only while wait_for is awaited; an
\* allowed reaction ends the wait and message.delete() is awaited; the reaction of a user
\* who is not allowed gets a remove_reaction task.
reaction_add(user, emoji, on_this) ==
    /\ wait_io.pc \notin {"idle", "start"}
    /\ wait_io.events < MaxReactions
    /\ on_this => wait_io.exists
    /\ LET waiting == wait_io.pc = "wait"
           allowed == reaction_check(user, emoji, on_this, wait_io.deletion_emojis,
                                     wait_io.user_ids, wait_io.allow_mods)
           removed == reaction_removed(user, emoji, on_this, wait_io.deletion_emojis,
                                       wait_io.user_ids, wait_io.allow_mods)
       IN  wait_io' = [wait_io EXCEPT
                         !.events = @ + 1,
                         !.reactions = IF on_this THEN @ \cup {<<emoji, user>>} ELSE @,
                         !.allowed_in_time = @ \/ (allowed /\ ~wait_io.timed_out /\ wait_io.pc # "done"),
                         !.accepted = @ \/ (waiting /\ allowed),
                         !.removing = IF waiting /\ removed THEN @ \cup {<<emoji, user>>} ELSE @,
                         !.pc = IF waiting /\ allowed THEN "delete" ELSE @]
    /\ UNCHANGED wait_io_rest

\* The task of reaction_check: reaction.message.remove_reaction(emoji, user), with
\* discord.HTTPException suppressed.
remove_reaction(r) ==
    /\ r \in wait_io.removing
    /\ wait_io' = [wait_io EXCEPT !.removing = @ \ {r}, !.reactions = @ \ {r}]
    /\ UNCHANGED wait_io_rest

\* wait_for raises asyncio.TimeoutError; message.clear_reactions() is awaited.
wait_timeout ==
    /\ wait_io.pc = "wait"
    /\ wait_io' = [wait_io EXCEPT !.timed_out = TRUE, !.pc = "clear"]
    /\ UNCHANGED wait_io_rest

\* await message.clear_reactions() has returned; discord.NotFound is logged.
clear_reactions ==
    /\ wait_io.pc = "clear"
    /\ wait_io' =
         IF wait_io.exists
         THEN [wait_io EXCEPT !.reactions = {}, !.cleared = TRUE, !.pc = "done"]
         ELSE [wait_io EXCEPT !.pc = "done"]
    /\ UNCHANGED wait_io_rest

\* await message.delete() has returned; discord.NotFound is logged.
message_delete ==
    /\ wait_io.pc = "delete"
    /\ wait_io' =
         IF wait_io.exists
         THEN [wait_io EXCEPT !.exists = FALSE, !.reactions = {}, !.deleted_by = "bot", !.pc = "done"]
         ELSE [wait_io EXCEPT !.pc = "done"]
    /\ UNCHANGED wait_io_rest

\* Somebody else deletes the message.
message_deleted_elsewhere ==
    /\ wait_io.pc \notin {"idle", "start", "done"}
    /\ wait_io.exists
    /\ wait_io' = [wait_io EXCEPT !.exists = FALSE, !.reactions = {}, !.deleted_by = "other"]
    /\ UNCHANGED wait_io_rest

WaitNext ==
    \/ wait_for_deletion
    \/ add_reaction
    \/ \E user \in Reactors, emoji \in ReactionEmojis, on_this \in BOOLEAN :
          reaction_add(user, emoji, on_this)
    \/ \E r \in wait_io.removing : remove_reaction(r)
    \/ wait_timeout
    \/ clear_reactions
    \/ message_delete
    \/ message_deleted_elsewhere

SpecWait == WaitInit /\ [][WaitNext]_vars

\* ================================================================== _unclaim_channel
\* One call of _unclaim_channel(channel, claimant_id, closed_on) for an In Use channel, with
\* the responses Discord gives.  The claimant may leave the guild while the call runs.
\* unclaim_io.raised is the exception that leaves the call, "none" while there is none.
ClosingReasons == {"command", "timeout", "deleted", "cleanup"}

unclaim_io_rest == <<help_vars, dynamic_vars, claim_io, rule_io, jam_io, wait_io, notify_io, infraction_io>>

UnclaimInit ==
    /\ HelpIdle
    /\ DynamicIdle
    /\ claim_io = NoCall
    /\ rule_io = NoCall
    /\ jam_io = NoCall
    /\ wait_io = NoCall
    /\ notify_io = NoCall
    /\ infraction_io = NoCall
    /\ \E claimant_id \in {NoUser, "u1"}, in_guild \in BOOLEAN, role \in RoleOutcomes,
          unpin_outcome \in EditOutcomes, move \in EditOutcomes, closed_on \in ClosingReasons,
          question \in BOOLEAN :
          unclaim_io = [pc |-> "claimants", claimant_id |-> claimant_id,
                        in_guild |-> claimant_id # NoUser /\ in_guild,
                        role |-> role, unpin |-> unpin_outcome, move |-> move,
                        closed_on |-> closed_on, question |-> question,
                        claimant |-> claimant_id, participants |-> TRUE,
                        found |-> FALSE, role_attempted |-> FALSE, cooldown |-> TRUE,
                        unpin_attempted |-> FALSE, pinned |-> question, reported |-> FALSE,
                        pool |-> "in_use", queued |-> FALSE, timer |-> TRUE,
                        logged |-> {}, raised |-> "none"]

\* The claimant leaves the guild.
unclaim_io_leave ==
    /\ unclaim_io.pc \notin {"idle", "done", "raised"}
    /\ unclaim_io.in_guild
    /\ unclaim_io' = [unclaim_io EXCEPT !.in_guild = FALSE]
    /\ UNCHANGED unclaim_io_rest

\* await _caches.claimants.delete(channel.id)
unclaim_io_claimants ==
    /\ unclaim_io.pc = "claimants"
    /\ unclaim_io' = [unclaim_io EXCEPT !.claimant = NoUser, !.pc = "participants"]
    /\ UNCHANGED unclaim_io_rest

\* await _caches.session_participants.delete(channel.id)
unclaim_io_participants ==
    /\ unclaim_io.pc = "participants"
    /\ unclaim_io' = [unclaim_io EXCEPT !.participants = FALSE, !.pc = "member"]
    /\ UNCHANGED unclaim_io_rest

\* A variant that goes on to the role change whether or not the claimant was found.
get_or_fetch_member_unchecked ==
    /\ unclaim_io.pc = "member"
    /\ unclaim_io' = [unclaim_io EXCEPT !.found = unclaim_io.in_guild, !.pc = "role"]
    /\ UNCHANGED unclaim_io_rest

\* claimant = await members.get_or_fetch_member(guild, claimant_id): None for a user that
\* is not in the guild (and for no id); then the role change is skipped and logged.
get_or_fetch_member ==
    /\ unclaim_io.pc = "member"
    /\ unclaim_io' =
         IF unclaim_io.in_guild
         THEN [unclaim_io EXCEPT !.found = TRUE, !.pc = "role"]
         ELSE [unclaim_io EXCEPT !.found = FALSE, !.logged = @ \cup {"info"}, !.pc = "unpin"]
    /\ UNCHANGED unclaim_io_rest

\* await self._handle_role_change(claimant, claimant.remove_roles): NotFound, Forbidden and
\* HTTPException are logged.
unclaim_io_role ==
    /\ unclaim_io.pc = "role"
    /\ unclaim_io' =
         CASE unclaim_io.role = "ok" /\ unclaim_io.in_guild ->
                [unclaim_io EXCEPT !.role_attempted = TRUE, !.cooldown = FALSE, !.pc = "unpin"]
           [] unclaim_io.role = "ok" /\ ~unclaim_io.in_guild ->
                [unclaim_io EXCEPT !.role_attempted = TRUE, !.logged = @ \cup {"debug"},
                                   !.pc = "unpin"]
           [] unclaim_io.role \in {"NotFound", "Forbidden"} ->
                [unclaim_io EXCEPT !.role_attempted = TRUE, !.logged = @ \cup {"debug"},
                                   !.pc = "unpin"]
           [] OTHER ->
                [unclaim_io EXCEPT !.role_attempted = TRUE, !.logged = @ \cup {"error"},
                                   !.pc = "unpin"]
    /\ UNCHANGED unclaim_io_rest

\* await _message.unpin(channel): the question message is taken from the cache; without one
\* nothing is unpinned; pin_wrapper returns False on an HTTPException.
unpin ==
    /\ unclaim_io.pc = "unpin"
    /\ unclaim_io' =
         IF ~unclaim_io.question
         THEN [unclaim_io EXCEPT !.unpin_attempted = TRUE, !.logged = @ \cup {"no_pin"},
                                 !.pc = "report"]
         ELSE IF unclaim_io.unpin = "ok"
         THEN [unclaim_io EXCEPT !.unpin_attempted = TRUE, !.question = FALSE,
                                 !.pinned = FALSE, !.pc = "report"]
         ELSE [unclaim_io EXCEPT !.unpin_attempted = TRUE, !.question = FALSE,
                                 !.logged = @ \cup {"exception"}, !.pc = "report"]
    /\ UNCHANGED unclaim_io_rest

\* await _stats.report_complete_session(channel.id, closed_on)
report_complete_session ==
    /\ unclaim_io.pc = "report"
    /\ unclaim_io' = [unclaim_io EXCEPT !.reported = TRUE, !.pc = "move"]
    /\ UNCHANGED unclaim_io_rest

\* move_to_dormant: await _channel.move_to_bottom(channel, help_dormant) moves the channel
\* or raises; nothing catches it.
unclaim_io_move_to_dormant ==
    /\ unclaim_io.pc = "move"
    /\ unclaim_io' =
         IF unclaim_io.move = "ok"
         THEN [unclaim_io EXCEPT !.pool = "dormant", !.pc = "send"]
         ELSE [unclaim_io EXCEPT !.pc = "raised", !.raised = unclaim_io.move]
    /\ UNCHANGED unclaim_io_rest

\* move_to_dormant: await channel.send(embed); self.channel_queue.put_nowait(channel);
\* _unclaim_channel: self.scheduler.cancel(channel.id) if closed by the command.
unclaim_io_finish ==
    /\ unclaim_io.pc = "send"
    /\ unclaim_io' = [unclaim_io EXCEPT !.queued = TRUE,
                                        !.timer = IF unclaim_io.closed_on = "command"
                                                  THEN FALSE ELSE @,
                                        !.pc = "done"]
    /\ UNCHANGED unclaim_io_rest

UnclaimNext ==
    \/ unclaim_io_leave
    \/ unclaim_io_claimants
    \/ unclaim_io_participants
    \/ get_or_fetch_member
    \/ unclaim_io_role
    \/ unpin
    \/ report_complete_session
    \/ unclaim_io_move_to_dormant
    \/ unclaim_io_finish

SpecUnclaim == UnclaimInit /\ [][UnclaimNext]_vars

\* ================================================================== notify_session_participants
\* The help sessions of one channel, seen from notify_session_participants.  The channel is
\* In Use and claimed; users send messages in it, and on_message calls
\* notify_session_participants for each (the lock of the channel in namespace help drops a
\* call while another one runs, and drops claim_channel likewise).  unclaim_channel may
\* start at any time: it takes locks of namespace help.unclaim only.  Once the channel is
\* Dormant it can be made Available and claimed again, which opens the next session.
\* notify_io.owner is the user whose message opened the session, notify_io.dms the number
\* of "Currently Helping" DMs each user got in it.
MaxSessions == 2            \* help sessions of the channel
MaxSessionMessages == 3     \* messages sent in the channel while it is In Use

notify_io_rest == <<help_vars, dynamic_vars, claim_io, rule_io, jam_io, wait_io, unclaim_io, infraction_io>>

NoNotify == [pc |-> "none", user |-> NoUser, close |-> FALSE, session_participants |-> {}]

NotifyInit ==
    /\ HelpIdle
    /\ DynamicIdle
    /\ claim_io = NoCall
    /\ rule_io = NoCall
    /\ jam_io = NoCall
    /\ wait_io = NoCall
    /\ unclaim_io = NoCall
    /\ infraction_io = NoCall
    /\ \E owner \in Users, help_dm \in SUBSET Users :
          notify_io = [pc |-> "session", in_use |-> TRUE, owner |-> owner, session |-> 1,
                       claimant |-> owner, help_dm |-> help_dm, participants |-> {},
                       call |-> NoNotify, unclaim |-> "none",
                       dms |-> [u \in Users |-> 0], warned |-> {}, messages |-> 0]

\* on_message for a message of u in the channel while it is in the In Use category; close:
\* the message invokes the close command.  notify_session_participants starts unless the
\* lock of the channel is held.
notify_io_on_message(u, close) ==
    /\ notify_io.pc = "session"
    /\ notify_io.in_use
    /\ notify_io.messages < MaxSessionMessages
    /\ notify_io' = [notify_io EXCEPT
                        !.messages = @ + 1,
                        !.call = IF notify_io.call.pc = "none"
                                 THEN [pc |-> "claimants", user |-> u, close |-> close,
                                       session_participants |-> {}]
                                 ELSE @]
    /\ UNCHANGED notify_io_rest

\* if await _caches.claimants.get(message.channel.id) == message.author.id: return
notify_claimants_get ==
    /\ notify_io.pc = "session"
    /\ notify_io.call.pc = "claimants"
    /\ notify_io' = IF notify_io.claimant = notify_io.call.user
                    THEN [notify_io EXCEPT !.call = NoNotify]
                    ELSE [notify_io EXCEPT !.call.pc = "help_dm"]
    /\ UNCHANGED notify_io_rest

\* if not await _caches.help_dm.get(message.author.id): return
notify_help_dm_get ==
    /\ notify_io.pc = "session"
    /\ notify_io.call.pc = "help_dm"
    /\ notify_io' = IF notify_io.call.user \in notify_io.help_dm
                    THEN [notify_io EXCEPT !.call.pc = "context"]
                    ELSE [notify_io EXCEPT !.call = NoNotify]
    /\ UNCHANGED notify_io_rest

\* if (await self.bot.get_context(message)).command == self.close_command: return
notify_get_context ==
    /\ notify_io.pc = "session"
    /\ notify_io.call.pc = "context"
    /\ notify_io' = IF notify_io.call.close
                    THEN [notify_io EXCEPT !.call = NoNotify]
                    ELSE [notify_io EXCEPT !.call.pc = "participants"]
    /\ UNCHANGED notify_io_rest

\* session_participants = deserialise(await _caches.session_participants.get(channel.id) or "");
\* an author who is in the set already is not notified again.
notify_participants_get ==
    /\ notify_io.pc = "session"
    /\ notify_io.call.pc = "participants"
    /\ notify_io' =
         IF notify_io.call.user \in notify_io.participants
         THEN [notify_io EXCEPT !.call = NoNotify]
         ELSE [notify_io EXCEPT
                  !.call.session_participants = notify_io.participants \cup {notify_io.call.user},
                  !.call.pc = "send"]
    /\ UNCHANGED notify_io_rest

\* await message.author.send(embed=embed): sent, Forbidden (caught), or another
\* HTTPException, which leaves the call.
notify_send(outcome) ==
    /\ notify_io.pc = "session"
    /\ notify_io.call.pc = "send"
    /\ notify_io' =
         CASE outcome = "ok" ->
                [notify_io EXCEPT !.dms[notify_io.call.user] = @ + 1, !.call.pc = "set"]
           [] outcome = "Forbidden" ->
                [notify_io EXCEPT !.call.pc = "forbidden"]
           [] OTHER ->
                [notify_io EXCEPT !.call = NoNotify]
    /\ UNCHANGED notify_io_rest

\* except discord.Forbidden: await _caches.help_dm.delete(message.author.id)
notify_help_dm_delete ==
    /\ notify_io.pc = "session"
    /\ notify_io.call.pc = "forbidden"
    /\ notify_io' = [notify_io EXCEPT !.help_dm = @ \ {notify_io.call.user},
                                      !.call.pc = "warn"]
    /\ UNCHANGED notify_io_rest

\* await bot_commands_channel.send(...); return
notify_warn ==
    /\ notify_io.pc = "session"
    /\ notify_io.call.pc = "warn"
    /\ notify_io' = [notify_io EXCEPT !.warned = @ \cup {notify_io.call.user},
                                      !.call = NoNotify]
    /\ UNCHANGED notify_io_rest

\* await _caches.session_participants.set(channel.id, serialise(session_participants))
notify_participants_set ==
    /\ notify_io.pc = "session"
    /\ notify_io.call.pc = "set"
    /\ notify_io' = [notify_io EXCEPT !.participants = notify_io.call.session_participants,
                                      !.call = NoNotify]
    /\ UNCHANGED notify_io_rest

\* unclaim_channel is called for the channel (idle timer or close command).
notify_io_unclaim_channel ==
    /\ notify_io.pc = "session"
    /\ notify_io.in_use
    /\ notify_io.unclaim = "none"
    /\ notify_io' = [notify_io EXCEPT !.unclaim = "claimants"]
    /\ UNCHANGED notify_io_rest

\* _unclaim_channel: await _caches.claimants.delete(channel.id)
notify_io_claimants_delete ==
    /\ notify_io.pc = "session"
    /\ notify_io.unclaim = "claimants"
    /\ notify_io' = [notify_io EXCEPT !.claimant = NoUser, !.unclaim = "participants"]
    /\ UNCHANGED notify_io_rest

\* _unclaim_channel: await _caches.session_participants.delete(channel.id); then the role
\* change, the unpin and the statistics.
notify_io_participants_delete ==
    /\ notify_io.pc = "session"
    /\ notify_io.unclaim = "participants"
    /\ notify_io' = [notify_io EXCEPT !.participants = {}, !.unclaim = "move"]
    /\ UNCHANGED notify_io_rest

\* _unclaim_channel: await self.move_to_dormant(channel)
notify_io_move_to_dormant ==
    /\ notify_io.pc = "session"
    /\ notify_io.unclaim = "move"
    /\ notify_io' = [notify_io EXCEPT !.in_use = FALSE, !.unclaim = "none"]
    /\ UNCHANGED notify_io_rest

\* The channel has been made Available again and u sends a message in it: claim_channel,
\* which is dropped while the lock of the channel is held.
notify_io_claim_channel(u) ==
    /\ notify_io.pc = "session"
    /\ ~notify_io.in_use
    /\ notify_io.unclaim = "none"
    /\ notify_io.call.pc = "none"
    /\ notify_io.session < MaxSessions
    /\ notify_io' = [notify_io EXCEPT !.in_use = TRUE, !.owner = u, !.claimant = u,
                                      !.session = @ + 1,
                                      !.dms = [x \in Users |-> 0]]
    /\ UNCHANGED notify_io_rest

NotifyNext ==
    \/ \E u \in Users, close \in BOOLEAN : notify_io_on_message(u, close)
    \/ notify_claimants_get
    \/ notify_help_dm_get
    \/ notify_get_context
    \/ notify_participants_get
    \/ \E outcome \in DmOutcomes : notify_send(outcome)
    \/ notify_help_dm_delete
    \/ notify_warn
    \/ notify_participants_set
    \/ notify_io_unclaim_channel
    \/ notify_io_claimants_delete
    \/ notify_io_participants_delete
    \/ notify_io_move_to_dormant
    \/ \E u \in Users : notify_io_claim_channel(u)

SpecNotify == NotifyInit /\ [][NotifyNext]_vars

\* ================================================================== apply_mute, apply_kick, apply_ban
\* One call of apply_mute, apply_kick or apply_ban of the Infractions cog for one user.
\* infraction_io.infractions is what the site API holds for the user, oldest first; an
\* infraction is a dictionary with the keys id, type, active, actor and expires_at.
\* infraction_io.ops lists what the call did to the API and the guild, in order, and
\* infraction_io.sent what it told the invoker.
Roles == 1..2

NoneValue == "None"

infraction_io_rest == <<help_vars, dynamic_vars, claim_io, rule_io, jam_io, wait_io, unclaim_io,
                        notify_io>>

\* dict.get(key): None for a key the dictionary does not have.
Get(d, key) == IF key \in DOMAIN d THEN d[key] ELSE NoneValue

Infraction(id, type, active, actor, expires_at) ==
    [id |-> id, type |-> type, active |-> active, actor |-> actor, expires_at |-> expires_at]

\* The active infractions of a type, oldest first.
ActiveInfractions(infractions, type) ==
    SelectSeq(infractions, LAMBDA i : i.type = type /\ i.active)

\* PATCH active=false for the infraction with the given id.
Deactivated(infractions, id) ==
    [k \in DOMAIN infractions |->
        IF infractions[k].id = id THEN [infractions[k] EXCEPT !.active = FALSE]
        ELSE infractions[k]]

InfractionInit ==
    /\ HelpIdle
    /\ DynamicIdle
    /\ claim_io = NoCall
    /\ rule_io = NoCall
    /\ jam_io = NoCall
    /\ wait_io = NoCall
    /\ unclaim_io = NoCall
    /\ notify_io = NoCall
    /\ \E command \in {"mute", "kick", "ban"}, duration \in {NoneValue, "1d"},
          member \in BOOLEAN, top_role \in Roles, me_top_role \in Roles,
          existing \in {"none", "temporary", "permanent"}, actor \in {"bot", "mod"},
          author \in {"bot", "mod"}, post \in {"ok", NoneValue},
          deactivation \in {"ok", "Failure"}, bb_cog \in BOOLEAN :
          /\ command = "kick" => member /\ existing = "none" /\ duration = NoneValue
          /\ command = "ban" /\ existing # "none" => ~member
          /\ existing = "none" => actor = "mod"
          /\ LET before ==
                    IF existing = "none" THEN <<>>
                    ELSE <<Infraction(1, command, TRUE, actor,
                                      IF existing = "temporary" THEN "2030-01-01"
                                      ELSE NoneValue)>>
             IN  infraction_io =
                    [pc |-> "start", command |-> command,
                     kwargs |-> IF command = "kick" THEN Empty
                                ELSE [k \in {"duration_or_expiry"} |-> duration],
                     member |-> member, top_role |-> top_role, me_top_role |-> me_top_role,
                     author |-> author, post |-> post, deactivation |-> deactivation,
                     bb_cog |-> bb_cog,
                     before |-> before, infractions |-> before,
                     banned |-> command = "ban" /\ existing # "none",
                     muted |-> command = "mute" /\ existing # "none" /\ member,
                     kicked |-> FALSE, unwatched |-> FALSE,
                     is_temporary |-> FALSE, send_msg |-> FALSE,
                     active_infraction |-> NoneValue, infraction |-> NoneValue,
                     ops |-> <<>>, sent |-> {}]

\* apply_kick with the test user.top_role > ctx.me.top_role.
apply_kick_above_only ==
    /\ infraction_io.pc = "start"
    /\ infraction_io.command = "kick"
    /\ infraction_io' =
         IF infraction_io.top_role > infraction_io.me_top_role
         THEN [infraction_io EXCEPT !.sent = @ \cup {"cannot kick"}, !.pc = "done"]
         ELSE [infraction_io EXCEPT !.pc = "post"]
    /\ UNCHANGED infraction_io_rest

\* apply_kick: a user above or equal to the bot in the role hierarchy is not kicked.
apply_kick ==
    /\ infraction_io.pc = "start"
    /\ infraction_io.command = "kick"
    /\ infraction_io' =
         IF infraction_io.top_role >= infraction_io.me_top_role
         THEN [infraction_io EXCEPT !.sent = @ \cup {"cannot kick"}, !.pc = "done"]
         ELSE [infraction_io EXCEPT !.pc = "post"]
    /\ UNCHANGED infraction_io_rest

\* apply_ban: the hierarchy test for a member; is_temporary from the keyword arguments;
\* then _utils.get_active_infraction(ctx, user, "ban", is_temporary).
apply_ban ==
    /\ infraction_io.pc = "start"
    /\ infraction_io.command = "ban"
    /\ LET is_temporary == Get(infraction_io.kwargs, "duration_or_expiry") # NoneValue
       IN  infraction_io' =
             IF infraction_io.member /\ infraction_io.top_role >= infraction_io.me_top_role
             THEN [infraction_io EXCEPT !.sent = @ \cup {"cannot ban"}, !.pc = "done"]
             ELSE [infraction_io EXCEPT !.is_temporary = is_temporary,
                                        !.send_msg = is_temporary, !.pc = "get_active"]
    /\ UNCHANGED infraction_io_rest

\* apply_mute: _utils.get_active_infraction(ctx, user, "mute", send_msg=False)
apply_mute ==
    /\ infraction_io.pc = "start"
    /\ infraction_io.command = "mute"
    /\ infraction_io' = [infraction_io EXCEPT !.send_msg = FALSE, !.pc = "get_active"]
    /\ UNCHANGED infraction_io_rest

\* _utils.get_active_infraction: the first active infraction of the type, or None; with
\* send_msg the invoker is told about an active one.
get_active_infraction ==
    /\ infraction_io.pc = "get_active"
    /\ LET active_infractions ==
               ActiveInfractions(infraction_io.infractions, infraction_io.command)
       IN  infraction_io' =
             IF active_infractions # <<>>
             THEN [infraction_io EXCEPT
                      !.active_infraction = active_infractions[1],
                      !.sent = IF infraction_io.send_msg THEN @ \cup {"already active"} ELSE @,
                      !.pc = "active"]
             ELSE [infraction_io EXCEPT !.pc = "post"]
    /\ UNCHANGED infraction_io_rest

\* await self.pardon_infraction(ctx, "ban", user, send_msg=is_temporary): the active ban is
\* deactivated and the user unbanned; post_infraction comes next.
pardon_infraction(call) ==
    [call EXCEPT !.infractions = Deactivated(@, call.active_infraction.id),
                 !.banned = FALSE, !.ops = Append(@, "pardon"), !.pc = "post"]

\* apply_ban with every ban overwriting an active one.
apply_ban_active_overwrites ==
    /\ infraction_io.pc = "active"
    /\ infraction_io.command = "ban"
    /\ infraction_io' = [infraction_io EXCEPT !.pc = "post"]
    /\ UNCHANGED infraction_io_rest

\* apply_ban, if active_infraction: a temporary ban is ignored; so is a permanent one when
\* active_infraction.get("duration_or_expiry") is None; otherwise the old ban is pardoned.
apply_ban_active ==
    /\ infraction_io.pc = "active"
    /\ infraction_io.command = "ban"
    /\ infraction_io' =
         IF infraction_io.is_temporary
         THEN [infraction_io EXCEPT !.pc = "done"]
         ELSE IF Get(infraction_io.active_infraction, "duration_or_expiry") = NoneValue
         THEN [infraction_io EXCEPT !.sent = @ \cup {"already permanently banned"},
                                    !.pc = "done"]
         ELSE pardon_infraction(infraction_io)
    /\ UNCHANGED infraction_io_rest

\* apply_mute posting the new mute next to an active one of the bot.
apply_mute_active_keeps_old ==
    /\ infraction_io.pc = "active"
    /\ infraction_io.command = "mute"
    /\ infraction_io' =
         IF infraction_io.active_infraction.actor # "bot"
         THEN [infraction_io EXCEPT !.sent = @ \cup {"already active"}, !.pc = "done"]
         ELSE [infraction_io EXCEPT !.pc = "post"]
    /\ UNCHANGED infraction_io_rest

\* apply_mute, if active: a mute of another actor stays and the invoker is told; a mute of
\* the bot is deactivated.
apply_mute_active ==
    /\ infraction_io.pc = "active"
    /\ infraction_io.command = "mute"
    /\ infraction_io' =
         IF infraction_io.active_infraction.actor # "bot"
         THEN [infraction_io EXCEPT !.sent = @ \cup {"already active"}, !.pc = "done"]
         ELSE [infraction_io EXCEPT !.pc = "deactivate"]
    /\ UNCHANGED infraction_io_rest

\* log_text = await self.deactivate_infraction(active, notify=False): pardon_mute and the
\* PATCH of the infraction.  With a Failure in log_text (the user is not in the guild, or a
\* request failed) the infraction may or may not have been patched; the invoker is told and
\* no mute is posted.
deactivate_infraction ==
    /\ infraction_io.pc = "deactivate"
    /\ LET id == infraction_io.active_infraction.id
       IN  IF infraction_io.deactivation = "ok" /\ infraction_io.member
           THEN infraction_io' =
                  [infraction_io EXCEPT
                      !.infractions = Deactivated(@, id), !.muted = FALSE,
                      !.ops = Append(@, "deactivate"), !.pc = "post"]
           ELSE \E patched \in BOOLEAN :
                  infraction_io' =
                    [infraction_io EXCEPT
                        !.infractions = IF patched THEN Deactivated(@, id) ELSE @,
                        !.ops = Append(@, "deactivate"),
                        !.sent = @ \cup {"cannot override"}, !.pc = "done"]
    /\ UNCHANGED infraction_io_rest

\* infraction = await _utils.post_infraction(ctx, user, type, reason, active=..., **kwargs);
\* None when the request fails.  A kick is posted inactive.
post_infraction ==
    /\ infraction_io.pc = "post"
    /\ IF infraction_io.post = "ok"
       THEN LET infraction ==
                    Infraction(Len(infraction_io.infractions) + 1, infraction_io.command,
                               infraction_io.command # "kick", infraction_io.author,
                               Get(infraction_io.kwargs, "duration_or_expiry"))
            IN  infraction_io' =
                   [infraction_io EXCEPT !.infractions = Append(@, infraction),
                                         !.infraction = infraction,
                                         !.ops = Append(@, "post"), !.pc = "apply"]
       ELSE infraction_io' = [infraction_io EXCEPT !.pc = "done"]
    /\ UNCHANGED infraction_io_rest

\* await self.apply_infraction(ctx, infraction, user, action): the action bans or kicks the
\* user, or gives a member the muted role.
apply_infraction ==
    /\ infraction_io.pc = "apply"
    /\ infraction_io' =
         CASE infraction_io.command = "ban" ->
                [infraction_io EXCEPT !.banned = TRUE, !.ops = Append(@, "ban"),
                                      !.pc = "unwatch"]
           [] infraction_io.command = "kick" ->
                [infraction_io EXCEPT !.kicked = TRUE, !.ops = Append(@, "kick"),
                                      !.pc = "done"]
           [] OTHER ->
                [infraction_io EXCEPT !.muted = infraction_io.member \/ @,
                                      !.ops = Append(@, "mute"), !.pc = "done"]
    /\ UNCHANGED infraction_io_rest

\* apply_ban: a permanently banned user is removed from the Big Brother watch list if the
\* cog is loaded.
apply_unwatch ==
    /\ infraction_io.pc = "unwatch"
    /\ infraction_io' =
         IF Get(infraction_io.infraction, "expires_at") # NoneValue
         THEN [infraction_io EXCEPT !.pc = "done"]
         ELSE [infraction_io EXCEPT !.unwatched = infraction_io.bb_cog, !.pc = "done"]
    /\ UNCHANGED infraction_io_rest

InfractionNext ==
    \/ apply_kick
    \/ apply_ban
    \/ apply_mute
    \/ get_active_infraction
    \/ apply_ban_active
    \/ apply_mute_active
    \/ deactivate_infraction
    \/ post_infraction
    \/ apply_infraction
    \/ apply_unwatch

SpecInfraction == InfractionInit /\ [][InfractionNext]_vars

\* ================================================================== claims
Pools == {"available", "in_use", "dormant"}

Range(s) == {s[i] : i \in DOMAIN s}

\* The help channels: the channels that exist, which are those of the catalogue whose name
\* is neither unused nor being given to a channel that create_dormant is creating.
HelpChannels ==
    {c \in Channels :
        \/ category[c] # "none"
        \/ /\ init.pc # "start"
           /\ c \notin Range(name_queue)
           /\ ~\E t \in Running : t.kind = "move_to_available" /\ t.pc = "create" /\ t.chan = c}

\* C1: in every reachable state each help channel is in exactly one of the three pools
\* Available, In Use and Dormant.
C1_ExactlyOnePool ==
    \A c \in HelpChannels : Cardinality({p \in Pools : c \in Pool(p)}) = 1

\* A claim and an unclaim are both about to finish and a channel is Available.
C1_Witness ==
    /\ \E t \in Running : t.kind = "claim" /\ t.pc = "times"
    /\ \E t \in Running : t.kind = "unclaim" /\ t.pc = "send"
    /\ Pool("available") # {}
    /\ Pool("in_use") # {}
    /\ Pool("dormant") # {}

\* C2: in every reachable state a channel has a claimant entry in the claimants cache if
\* and only if it is in the In Use pool, the states inside claim_channel and
\* _unclaim_channel included.
C2_ClaimantIffInUse ==
    \A c \in Channels : (c \in DOMAIN claimants) <=> (category[c] = "in_use")

\* A claim or an unclaim of channel c is in progress.
InTransition(c) == \E t \in Running : t.chan = c /\ t.kind \in {"claim", "unclaim", "close"}

\* The statement of C2 for the channels that no claim and no unclaim is working on.
C2_ClaimantIffInUseAtRest ==
    \A c \in Channels :
        init_done /\ ~InTransition(c) => ((c \in DOMAIN claimants) <=> (category[c] = "in_use"))

\* C3: at any time after the cog is ready every channel in the In Use pool has exactly one idle timer in the
\* scheduler, never zero while the channel is occupied and never two for one channel id.
C3_ExactlyOneIdleTimer ==
    init_done => \A c \in Pool("in_use") : Cardinality({k \in DOMAIN scheduler : k = c}) = 1

\* The statement of C3 once the cog is ready and no claim or unclaim works on the channel.
C3_ExactlyOneIdleTimerAtRest ==
    \A c \in Pool("in_use") : init_done /\ ~InTransition(c) => c \in DOMAIN scheduler

ClaimTasks(c) == {t \in Running : t.kind = "claim" /\ t.chan = c}

\* C4: of two concurrent claim attempts on the same Available channel exactly one runs
\* claim_channel (one claimant written, one move to In Use), and it runs holding the locks
\* of the channel and of its author; the attempt that finds a lock held is aborted and
\* changes nothing.
C4_OneClaimPerChannel ==
    /\ [](\A c \in Channels :
            /\ Cardinality(ClaimTasks(c)) <= 1
            /\ \A t \in ClaimTasks(c) :
                  /\ CopiesIn(t, tasks) = 1
                  /\ Locked(NAMESPACE, c) /\ Locked(NAMESPACE, t.user))
    /\ [][/\ aborted' # aborted =>
               UNCHANGED <<now, members, category, channel_queue, name_queue,
                           available_help_channels, claimants, claimant_last_message_times,
                           non_claimant_last_message_times, scheduler, locks, tasks, init,
                           last_notification, alerts>>
          /\ \A c \in Channels :
               (c \in DOMAIN claimants' /\ (c \notin DOMAIN claimants \/ claimants'[c] # claimants[c]))
                  => \E t \in ClaimTasks(c) : t.pc = "claimant" /\ claimants'[c] = t.user
          /\ \A c \in Channels :
               (category[c] # "in_use" /\ category'[c] = "in_use")
                  => \E t \in ClaimTasks(c) : t.pc = "move"]_vars

\* A second attempt on channel c was aborted at the channel's lock, and the one claim of c
\* has moved c to In Use and written its author as the claimant.
C4_Witness ==
    \E c \in Channels : \E t \in ClaimTasks(c) :
        /\ <<NAMESPACE, c>> \in aborted
        /\ t.pc = "times"
        /\ category[c] = "in_use"
        /\ c \in DOMAIN claimants /\ claimants[c] = t.user

\* C5: whenever unclaim_channel completes for a channel (its last step returns), the channel
\* is in the Dormant pool and the claimants cache has no entry for it, whether the claimant
\* is still a member of the guild or has left.
C5_UnclaimLeavesDormant ==
    [][\A t \in Running :
          (t.kind = "unclaim" /\ t.pc = "send" /\ CopiesIn(t, tasks') < CopiesIn(t, tasks))
             => (category'[t.chan] = "dormant" /\ t.chan \notin DOMAIN claimants')]_vars

RefillTasks == {t \in Running : t.kind = "move_to_available"}

\* C6: a refill takes a channel from the Dormant queue only when the queue holds one (it
\* takes the head, and the queue shrinks by exactly that entry), and once the cog is ready
\* and no refill task is pending the Available pool holds at most max_available channels.
C6_RefillBounded ==
    /\ [](init_done /\ RefillTasks = {} => Cardinality(Pool("available")) <= max_available)
    /\ [][Len(channel_queue') < Len(channel_queue) =>
            /\ Len(channel_queue) > 0
            /\ channel_queue' = Tail(channel_queue)
            /\ \E t \in RefillTasks : \E t2 \in BagToSet(tasks') :
                  /\ t.pc \in {"start", "wait"}
                  /\ t2 = [t EXCEPT !.pc = "move", !.chan = Head(channel_queue)]]_vars

\* After a claim by u2 the refill has completed: no refill task is pending and the
\* Available pool is back at max_available.
C6_Witness ==
    /\ init_done /\ RefillTasks = {}
    /\ Cardinality(Pool("available")) = max_available
    /\ \E c \in Pool("in_use") : c \in DOMAIN claimants /\ claimants[c] = "u2"
    /\ ClaimTasks("c1") \cup ClaimTasks("c2") \cup ClaimTasks("c3") = {}

\* C7: two out-of-channel conditions within notify_minutes of each other produce only one
\* staff alert: any two alerts are at least notify_minutes apart, also when the second
\* refill task calls notify while the send of the first is still awaited.
C7_NotificationThrottle ==
    \A i, j \in DOMAIN alerts : i < j => alerts[j] - alerts[i] >= notify_minutes

\* The body of claim_channel runs for channel c: its locks are taken and it has not returned.
ClaimBody(c) == {t \in ClaimTasks(c) : t.pc \in {"move", "claimant", "times"}}

\* The body of _unclaim_channel runs for channel c.
UnclaimBody(c) ==
    {t \in Running : t.kind = "unclaim" /\ t.chan = c /\ t.pc \in {"delete", "move", "send"}}

\* C8: a claim and an unclaim of the same channel are mutually exclusive: the body of
\* _unclaim_channel for channel c never runs while claim_channel for c is between its first
\* and its last step.
C8_ClaimUnclaimExclusive ==
    \A c \in Channels : ClaimBody(c) = {} \/ UnclaimBody(c) = {}

UserClaimBody(u) == {t \in Running : t.kind = "claim" /\ t.user = u /\ t.pc \in {"move", "claimant", "times"}}

\* The body of _unclaim_channel runs for a channel whose cached claimant was u.
UserUnclaimBody(u) ==
    {t \in Running : t.kind = "unclaim" /\ t.user = u /\ t.pc \in {"delete", "move", "send"}}

\* C9: operations of one user are serialized: at most one claim_channel body runs at a
\* time for a user, and a claim_channel body of user u never runs while _unclaim_channel
\* runs for a channel whose cached claimant is u.
C9_SameUserSerialized ==
    \A u \in Users :
        /\ Cardinality(UserClaimBody(u)) <= 1
        /\ \A t \in UserClaimBody(u) : CopiesIn(t, tasks) = 1
        /\ UserClaimBody(u) = {} \/ UserUnclaimBody(u) = {}

\* User u's second message, in another Available channel, was aborted at the author's lock,
\* and a claim of u waits for help.unclaim:u while _unclaim_channel runs for claimant u.
C9_Witness ==
    \E u \in Users :
        /\ <<NAMESPACE, u>> \in aborted
        /\ UserUnclaimBody(u) # {}
        /\ \E t \in Running : t.kind = "claim" /\ t.user = u /\ t.pc = "lock"

\* C10: the Available category is refilled automatically: at quiescence (the cog is ready
\* and no coroutine of the cog is alive, so every claim has completed and no refill waits
\* for a channel) the Available pool again holds max_available channels.
C10_AvailableRefilled ==
    init_done /\ tasks = EmptyBag => Cardinality(Pool("available")) = max_available

\* C11: unclaim cancels any pending idle timer of the channel: when unclaim_channel
\* completes, for every closing reason, no idle timer for that channel id remains in the
\* scheduler.
C11_UnclaimCancelsTimer ==
    [][\A t \in Running :
          (t.kind = "unclaim" /\ t.pc = "send" /\ CopiesIn(t, tasks') < CopiesIn(t, tasks))
             => t.chan \notin DOMAIN scheduler']_vars

\* Task t has taken a step to t2 (t2 replaces one copy of t in the bag of coroutines).
Stepped(t, t2) ==
    /\ CopiesIn(t, tasks') < CopiesIn(t, tasks)
    /\ CopiesIn(t2, tasks') > CopiesIn(t2, tasks)

\* The coroutine t takes a step of its own (it is not merely cancelled as the scheduled
\* task of its channel while it runs on).
Leaves(t) ==
    /\ CopiesIn(t, tasks') < CopiesIn(t, tasks)
    /\ ~(t.sched /\ CopiesIn([t EXCEPT !.sched = FALSE], tasks')
                      > CopiesIn([t EXCEPT !.sched = FALSE], tasks))

\* C12: get_available_candidate picks its channel in a fixed order: the head of the Dormant
\* queue when the queue is non-empty; a new channel from the name pool only when the queue
\* is empty; the staff notification and the wait for the queue only when the name pool is
\* exhausted too, and the waiting task then returns the entry the queue produces.
C12_CandidateOrder ==
    [][/\ \A t \in RefillTasks :
            (t.pc = "start" /\ CopiesIn(t, tasks') < CopiesIn(t, tasks)) =>
               IF channel_queue # <<>>
               THEN /\ Stepped(t, [t EXCEPT !.pc = "move", !.chan = Head(channel_queue)])
                    /\ channel_queue' = Tail(channel_queue)
                    /\ UNCHANGED <<name_queue, alerts, category>>
               ELSE IF name_queue # <<>>
               THEN /\ Stepped(t, [t EXCEPT !.pc = "create", !.chan = Head(name_queue)])
                    /\ name_queue' = Tail(name_queue)
                    /\ UNCHANGED <<channel_queue, alerts>>
               ELSE /\ Stepped(t, [t EXCEPT !.pc = "notify"]) \/ Stepped(t, [t EXCEPT !.pc = "wait"])
                    /\ UNCHANGED <<channel_queue, name_queue, category>>
       /\ \A t \in RefillTasks :
            (t.pc = "wait" /\ CopiesIn(t, tasks') < CopiesIn(t, tasks)) =>
               /\ channel_queue # <<>>
               /\ Stepped(t, [t EXCEPT !.pc = "move", !.chan = Head(channel_queue)])
               /\ channel_queue' = Tail(channel_queue)
       /\ alerts' # alerts =>
            \E t \in RefillTasks : t.pc = "notify" /\ Stepped(t, [t EXCEPT !.pc = "wait"])
       /\ name_queue' # name_queue /\ init.pc # "start" => channel_queue = <<>>]_vars

\* A refill that found the queue and the name pool empty has sent the alert and waits, and
\* an unclaim has now put a channel on the queue for it.
C12_Witness ==
    /\ alerts # <<>>
    /\ name_queue = <<>> /\ channel_queue # <<>>
    /\ \E t \in RefillTasks : t.pc = "wait"

\* C13: update_available_help_channels is an idempotent edit-or-send keyed by the
\* remembered message id, so repeated or concurrent rebuilds never leave more than one live
\* summary message.
C13_OneSummaryMessage ==
    Cardinality(summary_messages) <= 1

\* The steps of C13: an edit that succeeds sends nothing, a message is sent only by a call
\* that found no remembered id or whose edit found the message gone, and its id is then
\* remembered and cached.
C13_EditOrSend ==
    [][/\ summary_messages' \ summary_messages # {} =>
            \E t \in BagToSet(rebuilds) :
               /\ t.pc = "send"
               /\ t.id = NoMessage \/ t.id \notin summary_messages
               /\ summary_messages' = summary_messages \cup {next_message_id}
               /\ dynamic_message' = next_message_id
               /\ CopiesIn([pc |-> "cache", id |-> next_message_id], rebuilds') = 1
       /\ dynamic_cache' # dynamic_cache =>
            \E t \in BagToSet(rebuilds) : t.pc = "cache" /\ dynamic_cache' = t.id]_vars

\* C14: during a claim a failure of the cooldown-role change (NotFound, Forbidden or any
\* other HTTPException) or of the DM to the claimant is swallowed: claim_channel still
\* pins the message, records the claimant and the timestamps and starts the refill.  A
\* failure of move_to_in_use leaves claim_channel as an exception, with the claimant cache
\* as it was.  (A pin request that Discord refuses is the one reason for no pin.)
C14_ClaimErrors ==
    /\ [](/\ claim_io.pc \in {"done", "raised"} =>
              /\ claim_io.pc = "raised" <=> claim_io.move # "ok"
              /\ claim_io.raised = (IF claim_io.move # "ok" THEN claim_io.move ELSE "none")
          /\ claim_io.pc = "done" =>
              /\ claim_io.pool = "in_use" /\ claim_io.timer
              /\ claim_io.pinned <=> claim_io.pin = "ok"
              /\ claim_io.claimant = claim_io.author
              /\ claim_io.times
              /\ claim_io.refill)
    /\ [][claim_io'.pc = "raised" =>
             /\ claim_io'.claimant = claim_io.claimant
             /\ claim_io'.pool = "available"
             /\ ~claim_io'.refill]_vars

\* A claim completes although both the role change and the DM failed.
C14_Witness ==
    /\ claim_io.pc = "done"
    /\ claim_io.is_member
    /\ claim_io.role = "HTTPException"
    /\ claim_io.dm = "HTTPException"
    /\ claim_io.pinned /\ claim_io.refill

\* A claim whose move_to_in_use failed.
C14_WitnessRaised ==
    /\ claim_io.pc = "raised"
    /\ claim_io.claimant = "u2"

C15_WitnessUnclaimed ==
    /\ init.pc = "available"
    /\ category["c1"] = "available"
    /\ category["c2"] = "dormant" /\ category["c3"] = "dormant"
    /\ Range(channel_queue) = {"c2", "c3"}
    /\ scheduler = Empty

\* C16: cog_unload cancels the background tasks together, the init task, every refill task
\* blocked on the Dormant queue and all idle timers, so no channel is moved between pools
\* by a background task (a refill task, init_cog or a timer's move_idle_channel) after the
\* unload.
C16_NoMoveAfterUnload ==
    [][/\ (init.pc # "unloaded" /\ init'.pc = "unloaded") =>
             /\ scheduler' = Empty
             /\ \A t \in BagToSet(tasks') :
                   t.ret # "init" /\ ~(t.kind = "move_to_available" /\ t.pc = "wait")
       /\ init.pc = "unloaded" =>
             \A t \in Running :
                (CopiesIn(t, tasks') < CopiesIn(t, tasks)
                     /\ (t.kind = "move_to_available" \/ t.ret \in {"timer", "init"}))
                   => category' = category]_vars

\* C17: the close command unclaims only if the channel is in the In Use category and the
\* invoker is the cached claimant or has a whitelisted role; otherwise close_command
\* changes no pool, no cache and no timer.
C17_CloseOnlyInUse ==
    [][\A t \in Running :
          (t.kind = "close" /\ CopiesIn(t, tasks') < CopiesIn(t, tasks)) =>
             LET unclaim == Task("unclaim", "get", t.chan, NoUser, 0, "command", "task", FALSE)
             IN  IF CopiesIn(unclaim, tasks') > CopiesIn(unclaim, tasks)
                 THEN /\ category[t.chan] = "in_use"
                      /\ \/ t.chan \in DOMAIN claimants /\ claimants[t.chan] = t.user
                         \/ t.user \in Staff
                 ELSE UNCHANGED <<category, channel_queue, claimants, claimant_last_message_times,
                                  non_claimant_last_message_times, scheduler>>]_vars

\* The indices of the messages of a test case that its most recent author wrote, and the
\* user mentions the case gave them.
RelevantIndices(case) == {i \in 1..Len(case) : case[i].author = case[1].author}

RECURSIVE SumUsers(_, _)
SumUsers(case, I) ==
    IF I = {} THEN 0
    ELSE LET i == CHOOSE x \in I : TRUE IN case[i].users + SumUsers(case, I \ {i})

\* C18: with n the total number of user mentions in the messages of the author of the most
\* recent message, the mentions rule reports a violation if and only if n > max (n = max
\* reports nothing), and a report names that author, exactly those messages and the count n.
C18_MentionsThreshold ==
    rule_io.pc = "done" =>
        LET case == rule_io.case
            n == SumUsers(case, RelevantIndices(case))
            result == rule_io.result
        IN  /\ result # None <=> n > mentions_max
            /\ result # None =>
                  /\ result.members = <<case[1].author>>
                  /\ result.report = [sent |-> n, interval |-> mentions_interval]
                  /\ Len(result.messages) = Cardinality(RelevantIndices(case))
                  /\ \A i \in RelevantIndices(case) :
                        \E k \in 1..Len(result.messages) :
                           /\ result.messages[k] = rule_io.recent_messages[i]
                           /\ k = Cardinality({j \in RelevantIndices(case) : j <= i})

\* A report of max + 1 mentions spread over two messages of the author, with a message of
\* somebody else between them.
C18_Witness ==
    /\ rule_io.pc = "done"
    /\ rule_io.result # None
    /\ rule_io.result.report.sent = mentions_max + 1
    /\ Len(rule_io.result.messages) = 2
    /\ Len(rule_io.case) = 3
    /\ rule_io.case[2].author # rule_io.case[1].author

\* The history of a test case with added[i] more bot mentions in its i-th message.
WithBots(case, added) ==
    [i \in 1..Len(case) |-> make_msg(case[i].author, case[i].users, case[i].bots + added[i])]

\* C19: mentions of bots never count: adding any number of bot mentions to the messages of
\* a history changes neither whether a violation is reported nor the reported count, and
\* the count is that of the user mentions alone.
C19_BotMentionsIgnored ==
    rule_io.pc = "done" =>
        /\ \A added \in [1..Len(rule_io.case) -> 0..MaxAddedBots] :
              LET more == mentions_apply(WithBots(rule_io.case, added)[1], WithBots(rule_io.case, added))
              IN  /\ more = None <=> rule_io.result = None
                  /\ more # None => more.report = rule_io.result.report
        /\ rule_io.result # None =>
              rule_io.result.report.sent = SumUsers(rule_io.case, RelevantIndices(rule_io.case))

\* Nothing is reported for max user mentions although bots are mentioned as well.
C19_Witness ==
    /\ rule_io.pc = "done"
    /\ rule_io.result = None
    /\ SumUsers(rule_io.case, RelevantIndices(rule_io.case)) = mentions_max
    /\ \E i \in RelevantIndices(rule_io.case) : rule_io.case[i].bots > 0

\* The positions of the listing that hold a category named "Code Jam" with fewer than
\* MAX_CHANNELS channels.
Fitting(listing) ==
    {i \in 1..Len(listing) : listing[i].name = "Code Jam" /\ listing[i].channels < MAX_CHANNELS}

\* C20: _get_category returns the first category of the guild, in listing order, that is
\* named "Code Jam" and has fewer than MAX_CHANNELS channels, and creates nothing; if there
\* is none (no category at all, all full, or only other names) it creates exactly one new
\* category and returns it, with one status update sent.
C20_GetCategory ==
    jam_io.pc = "done" =>
        LET listing == jam_io.listing
            fitting == Fitting(listing)
        IN  IF fitting # {}
            THEN /\ \E i \in fitting :
                       /\ \A j \in fitting : i <= j
                       /\ jam_io.result = listing[i].id
                 /\ jam_io.categories = listing
                 /\ jam_io.created = 0
                 /\ jam_io.updates = 0
            ELSE /\ jam_io.created = 1
                 /\ jam_io.updates = 1
                 /\ Len(jam_io.categories) = Len(listing) + 1
                 /\ SubSeq(jam_io.categories, 1, Len(listing)) = listing
                 /\ jam_io.categories[Len(listing) + 1].id = jam_io.result
                 /\ jam_io.categories[Len(listing) + 1].name = CATEGORY_NAME
                 /\ \A i \in 1..Len(listing) : listing[i].id # jam_io.result

\* The second of three categories is returned: the first is full, the third has room too.
C20_Witness ==
    /\ jam_io.pc = "done"
    /\ Len(jam_io.listing) = 3
    /\ jam_io.listing[1].name = CATEGORY_NAME /\ jam_io.listing[1].channels = MAX_CHANNELS
    /\ Fitting(jam_io.listing) = {2, 3}
    /\ jam_io.result = jam_io.listing[2].id
    /\ jam_io.created = 0

\* A category is created for a guild whose categories are full or of another name.
C20_WitnessCreated ==
    /\ jam_io.pc = "done"
    /\ Len(jam_io.listing) = 2
    /\ jam_io.listing[1].name = CATEGORY_NAME
    /\ jam_io.listing[2].name = "other" /\ jam_io.listing[2].channels < MAX_CHANNELS
    /\ jam_io.created = 1 /\ jam_io.updates = 1
    /\ jam_io.result = 3

\* C21: wait_for_deletion ends in exactly one of two outcomes: if an allowed user (or a
\* moderator when allow_mods) adds one of the deletion emojis to the message before the
\* timeout, the message is deleted; if the timeout expires first, the reactions of the
\* message are cleared and the message is not deleted; a NotFound at any step (the message
\* is already deleted) ends the wait without an error.
C21_WaitOutcomes ==
    (wait_io.pc = "done" /\ wait_io.guild) =>
        /\ wait_io.raised = "none"
        /\ ~(wait_io.deleted_by = "bot" /\ wait_io.cleared)
        /\ wait_io.deleted_by = "bot" => ~wait_io.timed_out
        /\ wait_io.cleared => wait_io.timed_out
        /\ wait_io.deleted_by # "other" =>
              /\ wait_io.allowed_in_time => wait_io.deleted_by = "bot"
              /\ ~wait_io.allowed_in_time => wait_io.cleared /\ wait_io.exists

\* C21 for the reactions that arrive while wait_for is awaited: the message is deleted if
\* and only if reaction_check accepted one before the timeout; otherwise the reactions are
\* cleared and the message stays, unless somebody else deleted it, which ends the call
\* without an error.
C21_WaitOutcomesWhileWaiting ==
    (wait_io.pc = "done" /\ wait_io.guild) =>
        /\ wait_io.raised = "none"
        /\ ~(wait_io.deleted_by = "bot" /\ wait_io.cleared)
        /\ wait_io.deleted_by = "bot" => wait_io.accepted /\ ~wait_io.timed_out
        /\ wait_io.cleared => wait_io.timed_out /\ ~wait_io.accepted
        /\ wait_io.deleted_by # "other" =>
              /\ wait_io.accepted => wait_io.deleted_by = "bot"
              /\ ~wait_io.accepted => wait_io.cleared /\ wait_io.exists

\* C22: the refill prioritises the channels that have been dormant longest: among the
\* channels that unclaim pushed onto the Dormant queue, a channel pushed earlier is always
\* made Available before a channel pushed later.
C22_OldestDormantFirst ==
    [][\A c \in Channels :
          (category[c] # "available" /\ category'[c] = "available" /\ c \in Range(pushed))
             => c = Head(pushed)]_vars

\* The refill tasks that took a name from the pool and are creating its channel.
Creating == {t \in RefillTasks : t.pc = "create"}

\* C23: the name pool is never replenished at runtime.  Each create_dormant that creates a
\* channel removes exactly one name, the first of the pool, and the channel gets that name
\* in the Dormant category; no operation adds a name; no name is used for two channels (a
\* pooled name belongs to no channel, is pooled once, and is not the name of a channel
\* being created, and no two creations use the same name); and once the pool is empty
\* create_dormant creates nothing: the refill goes on to the staff alert or to the wait.
C23_NamePool ==
    /\ [](init.pc # "start" =>
            /\ \A i, j \in DOMAIN name_queue : name_queue[i] = name_queue[j] => i = j
            /\ \A c \in Range(name_queue) :
                  category[c] = "none" /\ ~\E t \in Creating : t.chan = c
            /\ \A t \in Creating : category[t.chan] = "none" /\ CopiesIn(t, tasks) = 1
            /\ \A t, t2 \in Creating : t.chan = t2.chan => t = t2)
    /\ [][init.pc # "start" =>
            /\ Len(name_queue') <= Len(name_queue)
            /\ name_queue' # name_queue =>
                  /\ name_queue' = Tail(name_queue)
                  /\ \E t \in RefillTasks :
                        /\ t.pc = "start"
                        /\ Stepped(t, [t EXCEPT !.pc = "create", !.chan = Head(name_queue)])
            /\ \A t \in RefillTasks :
                  (t.pc = "start" /\ CopiesIn(t, tasks') < CopiesIn(t, tasks)
                      /\ \E c \in Channels : Stepped(t, [t EXCEPT !.pc = "create", !.chan = c])) =>
                     name_queue # <<>> /\ name_queue' = Tail(name_queue)
            /\ \A c \in Channels :
                  (category[c] = "none" /\ category'[c] # "none") =>
                     /\ category'[c] = "dormant"
                     /\ name_queue' = name_queue /\ c \notin Range(name_queue)
                     /\ \E t \in Creating : t.chan = c /\ Stepped(t, [t EXCEPT !.pc = "move"])
            /\ \A c \in Channels : category[c] # "none" => category'[c] # "none"
            /\ \A t \in RefillTasks :
                  (t.pc = "start" /\ CopiesIn(t, tasks') < CopiesIn(t, tasks)
                      /\ channel_queue = <<>> /\ name_queue = <<>>) =>
                     /\ Stepped(t, [t EXCEPT !.pc = "notify"]) \/ Stepped(t, [t EXCEPT !.pc = "wait"])
                     /\ UNCHANGED <<category, name_queue, aborted>>]_vars

\* The last name of the pool has been taken and its channel is being created, while a
\* second refill has found the queue and the pool empty and goes on without a channel.
C23_Witness ==
    /\ init_done /\ name_queue = <<>> /\ channel_queue = <<>>
    /\ \E t \in Creating : category[t.chan] = "none"
    /\ \E t \in RefillTasks : t.pc \in {"notify", "wait"} /\ t.chan = NoChannel

\* The move_idle_channel calls for c that await get_closing_time.
MoveIdleTasks(c) == {t \in Running : t.kind = "move_idle" /\ t.pc = "closing" /\ t.chan = c}

\* move_idle_channel goes on to unclaim_channel(c, closed_on) in this step.
TimerUnclaims(c) ==
    \E t \in MoveIdleTasks(c) :
        Stepped(t, [t EXCEPT !.kind = "unclaim", !.pc = "get", !.reason = "timeout"])

\* The idle window a message opens: the claimant's or the others'.
IdleWindow(m) ==
    IF m.chan \in DOMAIN claimants /\ claimants[m.chan] = m.user
    THEN idle_minutes_claimant
    ELSE idle_minutes_others

\* C24: when an idle timer fires, move_idle_channel makes the channel dormant only if the
\* closing time computed from the cached last-message times of the claimant and of the
\* others is less than one second ahead, so that a message sent in the In Use channel
\* before the timer fires always postpones dormancy: when the channel is made dormant on
\* the cached closing time, no message sent in it has an idle window that is still open.
C24_MessagePostpones ==
    [][\A c \in Channels :
          (/\ TimerUnclaims(c)
           /\ category[c] = "in_use"
           /\ init_task_done /\ c \in DOMAIN claimant_last_message_times
           /\ get_closing_time(c, FALSE, ArrowMin) <= now) =>
             \A m \in Running :
                (m.kind = "message" /\ m.chan = c) => m.ts + IdleWindow(m) <= now]_vars

\* The decision of move_idle_channel itself: it goes on to unclaim only on a closing time
\* that is not ahead, and a timer's call that does not (and is not dropped at the unclaim
\* lock) leaves the channel where it is, with one timer that has not started and is due later.
C24_TimerDecision ==
    [][\A c \in Channels : \A t \in MoveIdleTasks(c) :
          Leaves(t) =>
             \/ /\ TimerUnclaims(c) \/ Locked(UNCLAIM_NAMESPACE, c)
                /\ \E is_empty \in BOOLEAN, last_message \in 0..now :
                      get_closing_time(c, is_empty, last_message) <= now
             \/ /\ ~TimerUnclaims(c)
                /\ UNCHANGED <<category, channel_queue, claimants, locks>>
                /\ t.ret = "timer" =>
                      /\ c \in DOMAIN scheduler'
                      /\ ~scheduler'[c].running
                      /\ scheduler'[c].due > now
                      /\ \E is_empty \in BOOLEAN, last_message \in 0..now :
                            /\ get_closing_time(c, is_empty, last_message) > now
                            /\ scheduler'[c].due = Due(get_closing_time(c, is_empty, last_message))]_vars

\* The on_message_delete calls for c that await _message.is_empty.
DeleteTasks(c) == {t \in Running : t.kind = "delete" /\ t.pc = "empty" /\ t.chan = c}

C26_ClaimCache ==
    [][\A c \in Channels : \A t \in ClaimTasks(c) :
          (t.pc = "times" /\ CopiesIn(t, tasks') < CopiesIn(t, tasks)) =>
             /\ c \in DOMAIN claimants' /\ claimants'[c] = t.user
             /\ c \in DOMAIN claimant_last_message_times'
             /\ claimant_last_message_times'[c] = t.ts
             /\ c \notin DOMAIN non_claimant_last_message_times']_vars

C27_WitnessNoClaimant ==
    /\ unclaim_io.pc = "done"
    /\ unclaim_io.claimant_id = NoUser /\ ~unclaim_io.role_attempted
    /\ unclaim_io.pool = "dormant" /\ unclaim_io.queued

\* The unclaim_channel calls that are inside _unclaim_channel.
UnclaimBodies == {t \in Running : t.kind = "unclaim" /\ t.pc \in {"delete", "move", "send"}}

\* The unclaim_channel calls that wait for the lock of their claimant.
UnclaimWaiting == {t \in Running : t.kind = "unclaim" /\ t.pc = "lock"}

\* C28: unclaim_channel serializes per claimant only when a claimant is cached.  Two
\* unclaims with the same cached claimant are never inside _unclaim_channel together: the
\* one inside holds the claimant's lock, the other waits for it and is never dropped, and
\* the lock it waits for is held by a call that is running.  An unclaim that finds no
\* claimant entry goes into _unclaim_channel at once, taking no claimant lock.
C28_UnclaimPerClaimant ==
    /\ [](/\ \A t \in UnclaimBodies :
                t.user # NoUser =>
                   /\ Locked(UNCLAIM_NAMESPACE, t.user)
                   /\ CopiesIn(t, tasks) = 1
                   /\ \A t2 \in UnclaimBodies : t2.user = t.user => t2 = t
          /\ \A t \in UnclaimWaiting :
                /\ t.user # NoUser
                /\ Locked(UNCLAIM_NAMESPACE, t.user) =>
                      \/ \E t2 \in UnclaimBodies : t2.user = t.user
                      \/ \E t2 \in Running :
                            /\ t2.kind = "claim" /\ t2.user = t.user
                            /\ t2.pc \in {"move", "claimant", "times"})
    /\ [][/\ \A t \in UnclaimWaiting :
                Leaves(t) =>
                   /\ ~Locked(UNCLAIM_NAMESPACE, t.user)
                   /\ Stepped(t, [t EXCEPT !.pc = "delete"])
                   /\ locks' = locks \cup {<<UNCLAIM_NAMESPACE, t.user>>}
          /\ \A t \in Running :
                (t.kind = "unclaim" /\ t.pc = "get" /\ Leaves(t)) =>
                   IF t.chan \in DOMAIN claimants
                   THEN IF Locked(UNCLAIM_NAMESPACE, claimants[t.chan])
                        THEN /\ Stepped(t, [t EXCEPT !.pc = "lock", !.user = claimants[t.chan]])
                             /\ UNCHANGED locks
                        ELSE /\ Stepped(t, [t EXCEPT !.pc = "delete", !.user = claimants[t.chan]])
                             /\ locks' = locks \cup {<<UNCLAIM_NAMESPACE, claimants[t.chan]>>}
                   ELSE /\ Stepped(t, [t EXCEPT !.pc = "delete", !.user = NoUser])
                        /\ UNCHANGED locks]_vars

\* Under the fair scheduling of the event loop an unclaim that waits for its claimant's
\* lock gets it, and every unclaim that has entered _unclaim_channel completes.
C28_UnclaimsComplete ==
    /\ (UnclaimWaiting # {}) ~> (UnclaimWaiting = {})
    /\ (UnclaimBodies # {}) ~> (UnclaimBodies = {})

\* Two channels have the same cached claimant; one unclaim is inside _unclaim_channel and
\* the unclaim of the other channel waits for the claimant's lock.
C28_Witness ==
    \E t \in UnclaimBodies : \E t2 \in UnclaimWaiting :
        t.user = t2.user /\ t.chan # t2.chan

\* An unclaim of a channel without a claimant entry is inside _unclaim_channel and holds no
\* claimant lock.
C28_WitnessNoClaimant ==
    \E t \in UnclaimBodies : t.user = NoUser /\ category[t.chan] = "in_use"

\* The claim_channel calls that start in this step.
ClaimsIn(b) == BagCardinality([t \in {x \in DOMAIN b : x.kind = "claim"} |-> b[t]])

ClaimStarts ==
    IF ClaimsIn(tasks') > ClaimsIn(tasks)
    THEN {t \in Running' : t.kind = "claim" /\ CopiesIn(t, tasks') > CopiesIn(t, tasks)}
    ELSE {}

\* C29: on_message starts a claim only for a message whose author is not a bot, in a
\* channel of the Available category that is not an excluded channel, and only after the
\* init task has completed; a channel enters the In Use category only in the
\* move_to_in_use of such a claim, so that a message from a bot, in an excluded channel or
\* in any other category never moves a channel to In Use.
C29_ClaimOnlyForQuestions ==
    /\ [](\A t \in Running : t.kind = "claim" => t.user \in Users /\ t.chan \in Channels)
    /\ [][/\ \A t \in ClaimStarts :
                /\ init_done
                /\ t.user \in Users \ Bots
                /\ t.chan \in Channels \ ExcludedChannels
                /\ category[t.chan] = "available"
                /\ t.pc \in {"lock", "move"}
                /\ events' = events + 1
          /\ \A c \in Channels :
                (category[c] # "in_use" /\ category'[c] = "in_use") =>
                   \E t \in ClaimTasks(c) :
                      t.pc = "move" /\ Stepped(t, [t EXCEPT !.pc = "claimant"])]_vars

\* The first event after the start was a user's message in an Available help channel, and
\* claim_channel has moved the channel to the In Use category.
C29_Witness ==
    /\ init_done /\ events = 1
    /\ \E t \in Running : t.kind = "claim" /\ t.pc = "claimant" /\ category[t.chan] = "in_use"

\* Messages of a bot or in the excluded channel have been handled and nothing has started.
C29_WitnessIgnored ==
    /\ init_done /\ events = MaxEvents /\ tasks = EmptyBag /\ locks = {}
    /\ claimants = <<>> /\ scheduler = <<>>
    /\ \A c \in Channels : category[c] # "in_use"

\* The refill tasks that found neither a dormant channel nor a name and wait for the queue.
StalledRefills ==
    {t \in RefillTasks : t.pc \in {"notify", "wait"} /\ channel_queue = <<>> /\ name_queue = <<>>}

\* The locks of namespace help that a call in progress holds: claim_channel holds those of
\* its channel and author, notify_session_participants likewise.
HelpLocksHeld ==
    UNION {{<<NAMESPACE, t.chan>>, <<NAMESPACE, t.user>>} :
             t \in {x \in Running : x.kind = "claim" \/ (x.kind = "message" /\ x.pc = "notify")}}

\* C30: claim_channel never holds the locks of its channel and author while waiting for a
\* dormant channel.  The refill is a task of its own: every held lock of the channel or the
\* author belongs to a call that is still running, never to a refill; claim_channel returns,
\* releasing its three locks, in the step in which it creates the refill task, whatever
\* the queue and the name pool hold; and a refill takes or releases no lock when it stalls.
C30_ClaimDoesNotWaitForRefill ==
    /\ [](\A key \in locks : key[1] = NAMESPACE => key \in HelpLocksHeld)
    /\ [][/\ \A c \in Channels : \A t \in ClaimTasks(c) :
                (t.pc = "times" /\ Leaves(t)) =>
                   /\ ClaimsIn(tasks') = ClaimsIn(tasks) - 1
                   /\ locks' = locks \ {<<NAMESPACE, c>>, <<NAMESPACE, t.user>>,
                                        <<UNCLAIM_NAMESPACE, t.user>>}
                   /\ BagCardinality(tasks') <= BagCardinality(tasks)
          /\ \A t \in RefillTasks :
                CopiesIn(t, tasks') < CopiesIn(t, tasks) => UNCHANGED locks]_vars

\* Under the fair scheduling of the event loop every claim_channel call returns, stalled
\* refill or not.
C30_ClaimsTerminate == (ClaimsIn(tasks) > 0) ~> (ClaimsIn(tasks) = 0)

\* C30, with termination: claim_channel holds no lock while a refill waits, and under the
\* fair scheduling of the event loop every claim_channel call returns.
C30_ClaimTerminatesWithoutRefill ==
    /\ C30_ClaimDoesNotWaitForRefill
    /\ C30_ClaimsTerminate

\* A refill task that a claim created is stalled with the queue and the name pool empty.
\* Every claim so far was made by one user, who is the claimant of two channels, holds no
\* lock from those claims, and has a later claim under way in a third channel.
C30_Witness ==
    /\ \E r \in StalledRefills : r.ret = "task"
    /\ \E c, d \in DOMAIN claimants : \E t \in Running :
          /\ c # d /\ claimants[c] = claimants[d]
          /\ category[c] = "in_use" /\ category[d] = "in_use"
          /\ ClaimTasks(c) = {} /\ ClaimTasks(d) = {}
          /\ t.kind = "claim" /\ t.user = claimants[c] /\ t.chan \notin {c, d}
          /\ t.pc \in {"move", "claimant", "times"}
          /\ ClaimsIn(tasks) = 1

\* The calls that the close command has started: close_check, and the unclaim_channel that
\* follows it.
CloseCalls == {t \in Running : t.kind = "close" \/ (t.kind = "unclaim" /\ t.reason = "command")}

\* C31: the close command cannot be used until the cog is ready.  No call of the command is
\* under way while the command is disabled, it is disabled at construction, and in the step
\* in which init_cog enables it every channel of the In Use category has its idle timer
\* (those whose closing time had passed have been moved out of the category) and
\* move_idle_channel is no longer running for any of them.
C31_CloseDisabledUntilReady ==
    /\ [](init.pc = "start" => ~close_enabled)
    /\ [](CloseCalls # {} => close_enabled)
    /\ [][(~close_enabled /\ close_enabled') =>
             /\ \A c \in Pool("in_use") : c \in DOMAIN scheduler'
             /\ \A t \in Running : t.ret # "init"
             /\ CloseCalls = {}]_vars

\* The first event after a restart during a help session is the close command in the
\* channel that was in use: its call is under way and the channel has its idle timer.
C31_Witness ==
    /\ events = 1
    /\ \E t \in CloseCalls : /\ category[t.chan] = "in_use"
                              /\ t.chan \in DOMAIN scheduler
                              /\ t.chan \in DOMAIN claimants

\* The restart found the channel in use idle: init_cog has moved it to the Dormant category
\* before it enabled the command.
C31_WitnessMoved ==
    /\ close_enabled /\ events = 0
    /\ DOMAIN claimant_last_message_times # {}
    /\ Pool("in_use") = {}

\* The step sends a "Currently Helping" DM to u.
Notified(u) == notify_io'.dms[u] > notify_io.dms[u]

\* C32: within one help session of a channel, a given opted-in user other than the claimant
\* gets the "Currently Helping" DM at most once; the claimant of the session gets none; a
\* DM goes only to a user whose help_dm flag is set; a Forbidden DM deletes the user's flag
\* and leaves the session's participant set as it was; and unclaim clears the participant
\* set of the channel.
C32_ParticipantsNotified ==
    /\ [](\A u \in Users : notify_io.dms[u] <= 1)
    /\ [](notify_io.dms[notify_io.owner] = 0)
    /\ [][/\ \A u \in Users :
                Notified(u) => /\ u \in notify_io.help_dm
                               /\ u \notin notify_io.participants
                               /\ notify_io'.call.pc = "set"
                               /\ u \in notify_io'.call.session_participants
          /\ notify_io.call.pc = "set" /\ notify_io'.call.pc = "none" =>
                notify_io.call.user \in notify_io'.participants
          /\ notify_io.call.pc \in {"forbidden", "warn"} =>
                notify_io'.participants \subseteq notify_io.participants
          /\ notify_io.call.pc = "warn" /\ notify_io'.call.pc = "none" =>
                notify_io.call.user \notin notify_io'.help_dm
          /\ notify_io.unclaim = "participants" /\ notify_io'.unclaim = "move" =>
                notify_io'.participants = {}]_vars

\* Until unclaim_channel starts, no user has got more than one DM in the session and the
\* claimant has got none.
C32_NotifiedBeforeUnclaim ==
    (notify_io.in_use /\ notify_io.unclaim = "none") =>
        /\ \A u \in Users : notify_io.dms[u] <= 1
        /\ notify_io.dms[notify_io.owner] = 0

\* The call asks for a temporary infraction.
Temporary == Get(infraction_io.kwargs, "duration_or_expiry") # NoneValue

\* The active infractions of the command's type that the user had when the call began.
ActiveBefore == ActiveInfractions(infraction_io.before, infraction_io.command)

\* The call has changed nothing: no infraction posted or deactivated, no action in the guild.
NothingApplied ==
    /\ infraction_io.infractions = infraction_io.before
    /\ infraction_io.ops = <<>>
    /\ ~infraction_io.kicked
    /\ infraction_io.banned = (infraction_io.command = "ban" /\ ActiveBefore # <<>>)

\* C33: a temporary ban cannot overwrite an active ban.  apply_ban with a duration for a user
\* who has an active ban posts no infraction, bans nobody and leaves the existing infraction
\* active; a permanent ban for a user with an active permanent ban posts nothing either and
\* tells the invoker that the user is already permanently banned.
C33_NoOverwrite ==
    (infraction_io.command = "ban" /\ ActiveBefore # <<>>) =>
        /\ Temporary => /\ NothingApplied
                        /\ infraction_io.pc \in {"start", "get_active", "active", "done"}
        /\ (~Temporary /\ ActiveBefore[1].expires_at = NoneValue) =>
              /\ NothingApplied
              /\ infraction_io.pc \in {"start", "get_active", "active", "done"}
              /\ infraction_io.pc = "done" =>
                    "already permanently banned" \in infraction_io.sent

\* A temporary ban for a user with an active ban has returned.
C33_Witness ==
    /\ infraction_io.pc = "done" /\ infraction_io.command = "ban"
    /\ Temporary /\ ActiveBefore # <<>>
    /\ infraction_io.active_infraction = ActiveBefore[1]

\* A permanent ban for a user with an active permanent ban has returned.
C33_WitnessPermanent ==
    /\ infraction_io.pc = "done" /\ infraction_io.command = "ban"
    /\ ~Temporary /\ ActiveBefore # <<>> /\ ActiveBefore[1].expires_at = NoneValue
    /\ "already permanently banned" \in infraction_io.sent

\* C34: a permanent ban replaces an active temporary ban.  When apply_ban without a duration
\* has returned for a user whose active ban has expires_at set, and the post succeeded, the
\* old ban was pardoned first, the permanent ban was posted and the user banned: the old
\* infraction is inactive and the only active ban is the new, permanent one.
C34_PermanentReplacesTemporary ==
    (/\ infraction_io.command = "ban" /\ infraction_io.pc = "done"
     /\ ~Temporary /\ infraction_io.post = "ok"
     /\ ActiveBefore # <<>> /\ ActiveBefore[1].expires_at # NoneValue) =>
        /\ infraction_io.ops = <<"pardon", "post", "ban">>
        /\ infraction_io.banned
        /\ LET active == ActiveInfractions(infraction_io.infractions, "ban")
           IN  /\ Len(active) = 1
               /\ active[1].id # ActiveBefore[1].id
               /\ active[1].expires_at = NoneValue

\* C35: apply_mute overrides only the bot's own mutes.  An active mute of another actor stays
\* as it is, nothing is posted or deactivated and the invoker is told; an active mute of the
\* bot is deactivated first, and the new mute is posted only when the deactivation reported
\* no Failure; the user never has two active mutes.
C35_MuteOverride ==
    infraction_io.command = "mute" =>
        /\ Len(ActiveInfractions(infraction_io.infractions, "mute")) <= 1
        /\ (ActiveBefore # <<>> /\ ActiveBefore[1].actor # "bot") =>
              /\ NothingApplied
              /\ infraction_io.pc \in {"start", "get_active", "active", "done"}
              /\ infraction_io.pc = "done" => "already active" \in infraction_io.sent
        /\ (ActiveBefore # <<>> /\ ActiveBefore[1].actor = "bot") =>
              /\ infraction_io.pc \in {"post", "apply", "done"} =>
                    /\ infraction_io.ops # <<>>
                    /\ infraction_io.ops[1] = "deactivate"
              /\ \A k \in DOMAIN infraction_io.ops :
                    infraction_io.ops[k] = "post" =>
                       /\ k = 2
                       /\ infraction_io.deactivation = "ok" /\ infraction_io.member
                       /\ "cannot override" \notin infraction_io.sent
                       /\ ~infraction_io.infractions[1].active
              /\ infraction_io.pc = "done" /\ "cannot override" \in infraction_io.sent =>
                    infraction_io.ops = <<"deactivate">>

\* A mute of the bot was deactivated and replaced by the new mute.
C35_Witness ==
    /\ infraction_io.pc = "done" /\ infraction_io.command = "mute"
    /\ ActiveBefore # <<>> /\ ActiveBefore[1].actor = "bot"
    /\ infraction_io.ops = <<"deactivate", "post", "mute">>
    /\ Len(infraction_io.infractions) = 2

\* The deactivation of the bot's mute reported a Failure; no mute was posted.
C35_WitnessFailure ==
    /\ infraction_io.pc = "done" /\ infraction_io.command = "mute"
    /\ ActiveBefore # <<>> /\ ActiveBefore[1].actor = "bot"
    /\ "cannot override" \in infraction_io.sent
    /\ infraction_io.post = "ok"

\* A mute of a moderator is active; the call has returned.
C35_WitnessOtherActor ==
    /\ infraction_io.pc = "done" /\ infraction_io.command = "mute"
    /\ ActiveBefore # <<>> /\ ActiveBefore[1].actor = "mod"
    /\ infraction_io.post = "ok"

\* C36: apply_kick and apply_ban for a guild member whose top role is greater than or equal to
\* the bot's post no infraction and kick or ban nobody, and the invoker is told that the
\* action is not possible.
C36_RoleHierarchy ==
    (/\ infraction_io.command \in {"kick", "ban"}
     /\ infraction_io.member
     /\ infraction_io.top_role >= infraction_io.me_top_role) =>
        /\ NothingApplied
        /\ infraction_io.pc \in {"start", "done"}
        /\ infraction_io.pc = "done" =>
              infraction_io.sent = {IF infraction_io.command = "kick"
                                    THEN "cannot kick" ELSE "cannot ban"}

\* A kick of a member whose top role equals the bot's has been refused though the post
\* would have succeeded.
C36_Witness ==
    /\ infraction_io.pc = "done" /\ infraction_io.command = "kick"
    /\ infraction_io.top_role = infraction_io.me_top_role
    /\ infraction_io.post = "ok"
    /\ "cannot kick" \in infraction_io.sent

\* A ban of a member above the bot has been refused.
C36_WitnessBan ==
    /\ infraction_io.pc = "done" /\ infraction_io.command = "ban"
    /\ infraction_io.member
    /\ infraction_io.top_role > infraction_io.me_top_role
    /\ infraction_io.post = "ok"
    /\ "cannot ban" \in infraction_io.sent

\* A member below the bot has been kicked.
C36_WitnessKicked ==
    /\ infraction_io.pc = "done" /\ infraction_io.command = "kick"
    /\ infraction_io.top_role < infraction_io.me_top_role
    /\ infraction_io.kicked /\ infraction_io.ops = <<"post", "kick">>

\* C37: the dormant queue holds each channel at most once, and only channels of the Dormant
\* category: move_to_dormant never queues a channel that is queued or Dormant already.
C37_DormantQueue ==
    /\ \A i, j \in DOMAIN channel_queue : i # j => channel_queue[i] # channel_queue[j]
    /\ \A i \in DOMAIN channel_queue : category[channel_queue[i]] = "dormant"

\* C38: an idle timer is scheduled only for channels of the In Use category.  A timer that
\* waits for its time belongs to an In Use channel, unless an unclaim_channel call for the
\* channel is under way (it moves the channel first and cancels the timer at its end).
C38_TimerOnlyInUse ==
    \A c \in DOMAIN scheduler :
        (~scheduler[c].running /\ ~\E t \in Running : t.kind = "unclaim" /\ t.chan = c)
            => category[c] = "in_use"

\* C39: every channel for which claim_channel runs is in available_help_channels when the
\* claim reaches its removal step: the removal does not fail and the refill task is created.
C39_ClaimedChannelListed ==
    [][\A c \in Channels : \A t \in ClaimTasks(c) :
          (t.pc = "times" /\ Leaves(t)) =>
             /\ c \in available_help_channels
             /\ \E r \in BagToSet(tasks') :
                   /\ r.kind = "move_to_available" /\ r.pc = "start" /\ r.ret = "task"
                   /\ CopiesIn(r, tasks') > CopiesIn(r, tasks)]_vars

====
